---- MODULE Spec2Model ----
(***************************************************************************)
(* Model of the problems backend: the filter normaliser (parseFilters),    *)
(* the query builder (ProblemRepository.buildFilter), the repository's     *)
(* reads and mutations against the document store, the serverless entry    *)
(* point's cached database connection, and the analytics aggregations.     *)
(***************************************************************************)
EXTENDS Integers, Sequences, FiniteSets, TLC

VARIABLES
  \* filter pipeline (filter.utils.ts, buildFilter)
  stage, query, filters, mongoFilter,
  \* repository reads (findAll, findAllProblems)
  coll, rFilters, rLimit, rSortOrder, nextPage, seenIds, listResult, bulk,
  \* concurrent requests against the store (updateStatus, addComment, findAll)
  store, store0, appended, pc, req, res, resp, calls,
  \* serverless entry point (serverless.ts)
  isConnected, connectCalls, connectFailures, hpc, hres,
  \* controllers' service handles (problem.controller.ts, analytics.controller.ts)
  problemService, analyticsService, constructions,
  \* problem controller handler invocations (problem.controller.ts)
  kHandler, kPc, kStoreOps, kThrown, kAnswers,
  \* analytics requests (AnalyticsService, getFilterOptions)
  aColl, aFilters, tzOffset, aResult

filterVars == <<stage, query, filters, mongoFilter>>
readVars == <<coll, rFilters, rLimit, rSortOrder, nextPage, seenIds, listResult, bulk>>
storeVars == <<store, store0, appended, pc, req, res, resp, calls>>
serverVars == <<isConnected, connectCalls, connectFailures, hpc, hres,
                problemService, analyticsService, constructions>>
serviceVars == <<problemService, analyticsService, constructions>>
analyticsVars == <<aColl, aFilters, tzOffset, aResult>>
controllerVars == <<kHandler, kPc, kStoreOps, kThrown, kAnswers>>
vars == <<filterVars, readVars, storeVars, serverVars, analyticsVars, controllerVars>>

(***************************************************************************)
(* JavaScript values.  Every value has the same shape so that values of    *)
(* different JavaScript types can be compared: t is the type tag, s the    *)
(* string, n the number (1/0 for a boolean), a the array's elements.       *)
(***************************************************************************)
Scalar(tag, str, num) == [t |-> tag, s |-> str, n |-> num]
Value(tag, str, num, arr) == [t |-> tag, s |-> str, n |-> num, a |-> arr]

Undefined == Value("undefined", "", 0, <<>>)
Null == Value("null", "", 0, <<>>)
NaN == Value("nan", "", 0, <<>>)
Str(x) == Value("string", x, 0, <<>>)
Num(k) == Value("number", "", k, <<>>)
Bool(b) == Value("boolean", "", IF b THEN 1 ELSE 0, <<>>)
True == Bool(TRUE)
False == Bool(FALSE)
ElemOf(v) == Scalar(v.t, v.s, v.n)
Arr(seq) == Value("array", "", 0, [i \in DOMAIN seq |-> ElemOf(seq[i])])
StrArr(seq) == Arr([i \in DOMAIN seq |-> Str(seq[i])])

\* JavaScript truthiness: if (x) ...
Truthy(v) ==
  CASE v.t = "undefined" -> FALSE
    [] v.t = "null" -> FALSE
    [] v.t = "nan" -> FALSE
    [] v.t = "string" -> v.s # ""
    [] v.t = "number" -> v.n # 0
    [] v.t = "boolean" -> v.n = 1
    [] OTHER -> TRUE

IsArray(v) == v.t = "array"

\* The decimal strings of the model's string universe and their values.
DecimalStrings == {"0", "5", "10"}
DecimalValue(s) ==
  CASE s = "0" -> 0
    [] s = "5" -> 5
    [] s = "10" -> 10
    [] OTHER -> 0

\* StringToNumber: the empty string is 0, a decimal literal its value,
\* anything else NaN.
StringToNumber(s) ==
  IF s = "" THEN Num(0)
  ELSE IF s \in DecimalStrings THEN Num(DecimalValue(s))
  ELSE NaN

\* Number(x) for the values a query can hold.
ToNumber(v) ==
  CASE v.t = "undefined" -> NaN
    [] v.t = "null" -> Num(0)
    [] v.t = "nan" -> NaN
    [] v.t = "number" -> Num(v.n)
    [] v.t = "boolean" -> Num(v.n)
    [] v.t = "string" -> StringToNumber(v.s)
    [] OTHER ->
         IF Len(v.a) = 0 THEN Num(0)
         ELSE IF Len(v.a) = 1 /\ v.a[1].t = "string" THEN StringToNumber(v.a[1].s)
         ELSE NaN

(***************************************************************************)
(* ProblemFilters and the raw query: records over the same keys, a key     *)
(* that is not set holding Undefined.                                      *)
(***************************************************************************)
ArrayKeys == {"impactLevel", "severityLevel", "status", "managementZones",
              "affectedEntityTypes", "entityTags", "evidenceType"}
StringKeys == {"dateFrom", "dateTo", "search"}
NumberKeys == {"durationMin", "durationMax"}
BooleanKeys == {"hasComments", "hasGitHubActions"}
TriStateKeys == {"hasRootCause", "autoremediado", "funcionoAutoRemediacion"}
FilterKeys == ArrayKeys \cup StringKeys \cup NumberKeys \cup BooleanKeys \cup TriStateKeys

EmptyQuery == [k \in FilterKeys |-> Undefined]

\* if (query.k) filters.k = Array.isArray(query.k) ? query.k : [query.k]
parseArray(raw) ==
  IF Truthy(raw) THEN (IF IsArray(raw) THEN raw ELSE Arr(<<raw>>)) ELSE Undefined

\* if (query.k) filters.k = query.k as string
parseString(raw) == IF Truthy(raw) THEN raw ELSE Undefined

\* if (query.k) filters.k = Number(query.k)
parseNumberMutant(raw) ==
  IF Truthy(raw) /\ ToNumber(raw) # Num(0) THEN ToNumber(raw) ELSE Undefined
parseNumber(raw) == IF Truthy(raw) THEN ToNumber(raw) ELSE Undefined

\* if (query.k !== undefined) filters.k = query.k === 'true' || query.k === true
parseBooleanMutant(raw) ==
  IF raw = Str("true") \/ raw = True THEN True ELSE Undefined
parseBoolean(raw) ==
  IF raw # Undefined THEN Bool(raw = Str("true") \/ raw = True) ELSE Undefined

\* if (query.k !== undefined) { true / false / null }
parseTriStateMutant(raw) ==
  IF raw # Undefined
  THEN IF raw = Str("true") \/ raw = True THEN True ELSE False
  ELSE Undefined
parseTriState(raw) ==
  IF raw # Undefined
  THEN IF raw = Str("true") \/ raw = True THEN True
       ELSE IF raw = Str("false") \/ raw = False THEN False
       ELSE Null
  ELSE Undefined

parseFilters(q) ==
  [k \in FilterKeys |->
     IF k \in ArrayKeys THEN parseArray(q[k])
     ELSE IF k \in StringKeys THEN parseString(q[k])
     ELSE IF k \in NumberKeys THEN parseNumber(q[k])
     ELSE IF k \in BooleanKeys THEN parseBoolean(q[k])
     ELSE parseTriState(q[k])]

(***************************************************************************)
(* The store predicate built by ProblemRepository.buildFilter.  It is a   *)
(* record with one clause per MongoDB key the code can set; a clause that  *)
(* was not set has on = FALSE.  All set clauses are ANDed by the store.    *)
(***************************************************************************)
NoIn == [on |-> FALSE, in |-> <<>>]
NoRange == [on |-> FALSE, gte |-> Undefined, lte |-> Undefined]
NoCount == [on |-> FALSE, op |-> "", n |-> 0]
NoRegex == [on |-> FALSE, regex |-> <<>>, options |-> ""]
NoText == [on |-> FALSE, search |-> Undefined]
NoRootCause == [on |-> FALSE, ne |-> Undefined, exists |-> FALSE]
NoEq == [on |-> FALSE, eq |-> Undefined]

\* if (filters.k && filters.k.length > 0) mongoFilter[path] = { $in: filters.k }
InClauseMutant(v) ==
  IF Truthy(v) THEN [on |-> TRUE, in |-> v.a] ELSE NoIn
InClause(v) ==
  IF Truthy(v) /\ Len(v.a) > 0 THEN [on |-> TRUE, in |-> v.a] ELSE NoIn

\* if (dateFrom || dateTo) { startTime = {}; $gte if dateFrom; $lte if dateTo }
DateClause(from, to) ==
  IF Truthy(from) \/ Truthy(to)
  THEN [on |-> TRUE,
        gte |-> IF Truthy(from) THEN from ELSE Undefined,
        lte |-> IF Truthy(to) THEN to ELSE Undefined]
  ELSE NoRange

\* if (hasComments !== undefined) { hasComments ? {$gt: 0} : 0 }
HasCommentsClause(v) ==
  IF v # Undefined
  THEN IF Truthy(v) THEN [on |-> TRUE, op |-> "gt", n |-> 0]
       ELSE [on |-> TRUE, op |-> "eq", n |-> 0]
  ELSE NoCount

\* if (hasGitHubActions) content = { $regex: 'GitHub Actions', $options: 'i' }
GitHubActionsClauseMutant(v) ==
  IF v # Undefined
  THEN [on |-> TRUE, regex |-> <<"GitHub", "Actions">>, options |-> "i"]
  ELSE NoRegex
GitHubActionsClause(v) ==
  IF Truthy(v) THEN [on |-> TRUE, regex |-> <<"GitHub", "Actions">>, options |-> "i"]
  ELSE NoRegex

\* if (filters.search) mongoFilter.$text = { $search: filters.search }
TextClause(v) == IF Truthy(v) THEN [on |-> TRUE, search |-> v] ELSE NoText

\* hasRootCause true: rootCauseEntity = { $ne: null, $exists: true }
RootCauseClauseMutant(v) ==
  IF v # Undefined /\ v # Null
  THEN [on |-> TRUE, ne |-> Null, exists |-> TRUE]
  ELSE NoRootCause
RootCauseClause(v) ==
  IF v # Undefined /\ v # Null /\ Truthy(v)
  THEN [on |-> TRUE, ne |-> Null, exists |-> TRUE]
  ELSE NoRootCause

\* hasRootCause false: $or = [{rootCauseEntity: null}, {rootCauseEntity: {$exists: false}}]
RootCauseOr(v) ==
  IF v # Undefined /\ v # Null /\ ~Truthy(v)
  THEN <<"rootCauseEntity_null", "rootCauseEntity_not_exists">>
  ELSE <<>>

\* if (durationMin !== undefined || durationMax !== undefined) { duration = {} ... }
DurationClause(min, max) ==
  IF min # Undefined \/ max # Undefined
  THEN [on |-> TRUE, gte |-> min, lte |-> max]
  ELSE NoRange

\* if (filters.k !== undefined && filters.k !== null) mongoFilter.k = filters.k
BoolEqClause(v) ==
  IF v # Undefined /\ v # Null THEN [on |-> TRUE, eq |-> v] ELSE NoEq

buildFilter(f) ==
  [impactLevel |-> InClause(f.impactLevel),
   severityLevel |-> InClause(f.severityLevel),
   status |-> InClause(f.status),
   managementZones_name |-> InClause(f.managementZones),
   affectedEntities_entityId_type |-> InClause(f.affectedEntityTypes),
   entityTags_stringRepresentation |-> InClause(f.entityTags),
   startTime |-> DateClause(f.dateFrom, f.dateTo),
   recentComments_totalCount |-> HasCommentsClause(f.hasComments),
   recentComments_comments_content |-> GitHubActionsClause(f.hasGitHubActions),
   evidenceDetails_details_evidenceType |-> InClause(f.evidenceType),
   text |-> TextClause(f.search),
   rootCauseEntity |-> RootCauseClause(f.hasRootCause),
   or |-> RootCauseOr(f.hasRootCause),
   duration |-> DurationClause(f.durationMin, f.durationMax),
   autoremediado |-> BoolEqClause(f.autoremediado),
   funcionoAutoRemediacion |-> BoolEqClause(f.funcionoAutoRemediacion)]

\* const mongoFilter = {}
EmptyMongoFilter == buildFilter(EmptyQuery)

(***************************************************************************)
(* Stored problem documents and the store's evaluation of a predicate.     *)
(* rootCauseEntity is "absent", "null", "empty" ({}) or "object";          *)
(* autoremediado and funcionoAutoRemediacion are Undefined (absent), True  *)
(* or False; duration is a number, or Undefined or Null when the document  *)
(* holds none; a comment's content is its sequence of words.               *)
(***************************************************************************)
\* Code-unit (lexicographic) order of the strings the model compares.
StrRank(s) ==
  CASE s = "" -> 0
    [] s = "0" -> 1
    [] s = "10" -> 2
    [] s = "2024-01-01" -> 3
    [] s = "2024-01-02" -> 4
    [] s = "2024-01-03" -> 5
    [] s = "5" -> 6
    [] OTHER -> 7

\* String.prototype.toLowerCase on one word.
LowerWord(w) ==
  CASE w = "GitHub" -> "github"
    [] w = "GITHUB" -> "github"
    [] w = "Actions" -> "actions"
    [] w = "ACTIONS" -> "actions"
    [] w = "Success" -> "success"
    [] w = "Disk" -> "disk"
    [] OTHER -> w
ToLowerCase(words) == [i \in DOMAIN words |-> LowerWord(words[i])]

\* haystack.includes(needle), both sequences of words.
Includes(haystack, needle) ==
  \E i \in 0..(Len(haystack) - Len(needle)) :
    \A j \in 1..Len(needle) : haystack[i + j] = needle[j]

\* $regex with $options 'i': a case-insensitive substring match.
RegexMatches(content, clause) ==
  IF clause.options = "i"
  THEN Includes(ToLowerCase(content), ToLowerCase(clause.regex))
  ELSE Includes(content, clause.regex)

\* { $in: [...] } on a path that yields the values `vals` (one value for a
\* scalar field, the elements for an array path).
InMatches(vals, clause) ==
  \E i \in DOMAIN clause.in : clause.in[i].t = "string" /\ clause.in[i].s \in vals

\* { $gte: x } / { $lte: x }: the store compares within one type only;
\* NaN equals only NaN, so no stored number satisfies a NaN bound.
GteMatches(v, bound) ==
  CASE bound = Undefined -> TRUE
    [] bound.t = "string" /\ v.t = "string" -> StrRank(v.s) >= StrRank(bound.s)
    [] bound.t = "number" /\ v.t = "number" -> v.n >= bound.n
    [] OTHER -> FALSE
LteMatches(v, bound) ==
  CASE bound = Undefined -> TRUE
    [] bound.t = "string" /\ v.t = "string" -> StrRank(v.s) <= StrRank(bound.s)
    [] bound.t = "number" /\ v.t = "number" -> v.n <= bound.n
    [] OTHER -> FALSE
RangeMatches(v, clause) == GteMatches(v, clause.gte) /\ LteMatches(v, clause.lte)

CountMatches(n, clause) == IF clause.op = "gt" THEN n > clause.n ELSE n = clause.n

\* { $text: { $search: s } }: some indexed word of the title equals the term,
\* case-insensitively.
TextMatches(doc, clause) ==
  /\ clause.search.t = "string"
  /\ \E i \in DOMAIN doc.title : LowerWord(doc.title[i]) = LowerWord(clause.search.s)

\* { rootCauseEntity: { $ne: null, $exists: true } }
RootCauseMatches(doc) == doc.rootCauseEntity \notin {"absent", "null"}

\* One sub-clause of $or.  { rootCauseEntity: null } matches a null and a
\* missing field; { $exists: false } a missing field.
OrClauseMatches(doc, c) ==
  IF c = "rootCauseEntity_null" THEN doc.rootCauseEntity \in {"absent", "null"}
  ELSE doc.rootCauseEntity = "absent"

Range(seq) == {seq[i] : i \in DOMAIN seq}

\* The store's evaluation of the predicate on one document: the AND of the
\* clauses that are set.
Matches(doc, mf) ==
  /\ mf.impactLevel.on => InMatches({doc.impactLevel}, mf.impactLevel)
  /\ mf.severityLevel.on => InMatches({doc.severityLevel}, mf.severityLevel)
  /\ mf.status.on => InMatches({doc.status}, mf.status)
  /\ mf.managementZones_name.on =>
       InMatches(Range(doc.managementZones), mf.managementZones_name)
  /\ mf.affectedEntities_entityId_type.on =>
       InMatches({doc.affectedEntities[i].type : i \in DOMAIN doc.affectedEntities},
                 mf.affectedEntities_entityId_type)
  /\ mf.entityTags_stringRepresentation.on =>
       InMatches(Range(doc.entityTags), mf.entityTags_stringRepresentation)
  /\ mf.startTime.on => RangeMatches(Str(doc.startTime), mf.startTime)
  /\ mf.recentComments_totalCount.on =>
       CountMatches(doc.recentComments.totalCount, mf.recentComments_totalCount)
  /\ mf.recentComments_comments_content.on =>
       \E i \in DOMAIN doc.recentComments.comments :
         RegexMatches(doc.recentComments.comments[i].content,
                      mf.recentComments_comments_content)
  /\ mf.evidenceDetails_details_evidenceType.on =>
       InMatches({doc.evidenceDetails[i].evidenceType : i \in DOMAIN doc.evidenceDetails},
                 mf.evidenceDetails_details_evidenceType)
  /\ mf.text.on => TextMatches(doc, mf.text)
  /\ mf.rootCauseEntity.on => RootCauseMatches(doc)
  /\ mf.or # <<>> => \E i \in DOMAIN mf.or : OrClauseMatches(doc, mf.or[i])
  /\ mf.duration.on => RangeMatches(doc.duration, mf.duration)
  /\ mf.autoremediado.on => doc.autoremediado = mf.autoremediado.eq
  /\ mf.funcionoAutoRemediacion.on =>
       doc.funcionoAutoRemediacion = mf.funcionoAutoRemediacion.eq

Comment(words) == [content |-> words, authorName |-> "Anonymous"]

BaseDoc ==
  [problemId |-> "P1", title |-> <<"Disk", "full">>,
   status |-> "OPEN", impactLevel |-> "SERVICES", severityLevel |-> "ERROR",
   startTime |-> "2024-01-02", duration |-> Num(5),
   rootCauseEntity |-> "object",
   managementZones |-> <<"prod">>,
   affectedEntities |-> <<[name |-> "web", id |-> "E1", type |-> "SERVICE"]>>,
   entityTags |-> <<"env:prod">>,
   evidenceDetails |-> <<[evidenceType |-> "EVENT", eventType |-> "ERROR_EVENT"]>>,
   recentComments |-> [totalCount |-> 0, comments |-> <<>>],
   autoremediado |-> Undefined, funcionoAutoRemediacion |-> Undefined]

(***************************************************************************)
(* The repository's reads.  The collection is the sequence of its          *)
(* documents in the store's natural order; problemId is unique in it.      *)
(***************************************************************************)
\* collection.find(mongoFilter): the matching documents in natural order.
Find(docs, mf) == SelectSeq(docs, LAMBDA d : Matches(d, mf))

\* collection.countDocuments(mongoFilter)
CountDocuments(docs, mf) == Len(Find(docs, mf))

\* The key a cursor sorts on.
SortKey(doc, sortBy) ==
  IF sortBy = "startTime" THEN StrRank(doc.startTime) ELSE doc.duration.n

\* a sorts strictly before b under { [sortBy]: direction }.
SortsBefore(a, b, sortBy, direction) ==
  IF direction = 1 THEN SortKey(a, sortBy) < SortKey(b, sortBy)
  ELSE SortKey(a, sortBy) > SortKey(b, sortBy)

RECURSIVE InsertSorted(_, _, _, _)
InsertSorted(d, sorted, sortBy, direction) ==
  IF sorted = <<>> THEN <<d>>
  ELSE IF SortsBefore(d, Head(sorted), sortBy, direction) THEN <<d>> \o sorted
  ELSE <<Head(sorted)>> \o InsertSorted(d, Tail(sorted), sortBy, direction)

\* One order of the documents that is sorted on the key.
RECURSIVE SortDocs(_, _, _)
SortDocs(docs, sortBy, direction) ==
  IF docs = <<>> THEN <<>>
  ELSE InsertSorted(docs[Len(docs)],
                    SortDocs(SubSeq(docs, 1, Len(docs) - 1), sortBy, direction),
                    sortBy, direction)

\* cursor.skip(n)
Skip(docs, n) == IF n >= Len(docs) THEN <<>> ELSE SubSeq(docs, n + 1, Len(docs))

\* The number of documents a cursor over n documents yields under limit(k).
LimitedLength(n, k) == IF n < k THEN n ELSE k

\* cursor.limit(k)
Limit(docs, k) == SubSeq(docs, 1, LimitedLength(Len(docs), k))

\* Math.ceil(a / b) for b > 0
CeilDiv(a, b) == (a + b - 1) \div b

\* cursor.sort(sort): the store returns documents whose sort keys are equal
\* in any order, and the order can differ from one query to the next; the
\* orders a query can see are the sorted order with tied documents permuted.
TieOrders(sorted, sortBy) ==
  {[i \in DOMAIN sorted |-> sorted[p[i]]] :
     p \in {q \in Permutations(DOMAIN sorted) :
              \A i \in DOMAIN sorted :
                SortKey(sorted[q[i]], sortBy) = SortKey(sorted[i], sortBy)}}

\* findAll's page fetch: find(mongoFilter).sort(sort).skip(skip).limit(limit);
\* the set of pages the store can return.
PageFetch(docs, mf, page, limit, sortBy, sortOrder) ==
  {Limit(Skip(o, (page - 1) * limit), limit) :
     o \in TieOrders(SortDocs(Find(docs, mf), sortBy,
                              IF sortOrder = "asc" THEN 1 ELSE -1),
                     sortBy)}

\* findAll's count fetch: countDocuments(mongoFilter)
CountFetchMutant(docs, mf) == Len(docs)
CountFetch(docs, mf) == CountDocuments(docs, mf)

\* findAll's response from its two reads.
FindAllResponse(problems, total, page, limit) ==
  [problems |-> problems, total |-> total, page |-> page, limit |-> limit,
   totalPages |-> CeilDiv(total, limit)]

\* findAll against a store that does not change between its two reads: the
\* set of responses it can return.
findAll(docs, f, page, limit, sortBy, sortOrder) ==
  LET mf == buildFilter(f)
  IN {FindAllResponse(problems, CountFetch(docs, mf), page, limit) :
        problems \in PageFetch(docs, mf, page, limit, sortBy, sortOrder)}

\* The fields findAllProblems does not project are absent from its records.
Absent == "<absent>"
\* A field stored with the value null.
NullField == "<null>"
Project(doc) ==
  [doc EXCEPT
     !.affectedEntities =
        [i \in DOMAIN @ |-> [name |-> Absent, id |-> Absent, type |-> @[i].type]],
     !.evidenceDetails =
        [i \in DOMAIN @ |-> [evidenceType |-> @[i].evidenceType, eventType |-> Absent]],
     !.entityTags = <<>>,
     !.autoremediado = Undefined,
     !.funcionoAutoRemediacion = Undefined]

\* if (limit) query.limit(limit) else query.limit(10000)
DefaultBulkLimit == 10000
EffectiveLimitMutant(limit) == IF limit # Undefined THEN limit.n ELSE DefaultBulkLimit
EffectiveLimit(limit) == IF Truthy(limit) THEN limit.n ELSE DefaultBulkLimit

\* const mongoFilter = filters ? this.buildFilter(filters) : {}
BulkFilter(f) == IF f = Undefined THEN EmptyMongoFilter ELSE buildFilter(f)

findAllProblems(docs, f, limit) ==
  LET matching == Find(docs, BulkFilter(f))
      projected == [i \in DOMAIN matching |-> Project(matching[i])]
  IN Limit(projected, EffectiveLimit(limit))

\* The number of records findAllProblems returns when n documents match.
findAllProblemsLength(n, limit) == LimitedLength(n, EffectiveLimit(limit))

(***************************************************************************)
(* The repository's mutations: each is one findOneAndUpdate, which the     *)
(* store applies atomically to the first document whose problemId matches  *)
(* and which returns the document after the update, or null.               *)
(***************************************************************************)
NoDoc == [BaseDoc EXCEPT !.problemId = ""]

\* The position of the document { problemId } selects, 0 if there is none.
FindOneIndex(docs, problemId) ==
  IF \E i \in DOMAIN docs : docs[i].problemId = problemId
  THEN CHOOSE i \in DOMAIN docs :
         /\ docs[i].problemId = problemId
         /\ \A j \in 1..(i - 1) : docs[j].problemId # problemId
  ELSE 0

\* findOneAndUpdate(filter, update, { returnDocument: 'after' })
FindOneAndUpdate(docs, problemId, updated) ==
  LET i == FindOneIndex(docs, problemId)
  IN IF i = 0 THEN [docs |-> docs, found |-> FALSE, doc |-> NoDoc]
     ELSE [docs |-> [docs EXCEPT ![i] = updated], found |-> TRUE, doc |-> updated]

\* { $set: { status } }
SetStatusMutant(doc, status) ==
  [BaseDoc EXCEPT !.problemId = doc.problemId, !.status = status]
SetStatus(doc, status) == [doc EXCEPT !.status = status]

\* { $push: { 'recentComments.comments': comment }, $inc: { 'recentComments.totalCount': 1 } }
PushCommentMutant(doc, comment) ==
  [doc EXCEPT !.recentComments.comments = Append(@, comment)]
PushComment(doc, comment) ==
  [doc EXCEPT !.recentComments.comments = Append(@, comment),
              !.recentComments.totalCount = @ + 1]

updateStatusMutant(docs, problemId, status) ==
  LET i == FindOneIndex(docs, problemId)
  IN IF i = 0 THEN [docs |-> Append(docs, SetStatus([BaseDoc EXCEPT !.problemId = problemId], status)),
                    found |-> FALSE, doc |-> NoDoc]
     ELSE FindOneAndUpdate(docs, problemId, SetStatus(docs[i], status))
updateStatus(docs, problemId, status) ==
  LET i == FindOneIndex(docs, problemId)
  IN FindOneAndUpdate(docs, problemId, IF i = 0 THEN NoDoc ELSE SetStatus(docs[i], status))

addComment(docs, problemId, comment) ==
  LET i == FindOneIndex(docs, problemId)
  IN FindOneAndUpdate(docs, problemId, IF i = 0 THEN NoDoc ELSE PushComment(docs[i], comment))

(***************************************************************************)
(* The service and the controller around a repository call.  The service   *)
(* turns a null result into Error('Problem not found'); the controller     *)
(* answers with sendSuccess, with a NOT_FOUND 404 for that message, or     *)
(* hands any other error to next.                                          *)
(***************************************************************************)
\* ProblemService: if (!problem) throw new Error('Problem not found')
ServiceOutcome(found) ==
  IF found THEN [threw |-> FALSE, message |-> "", isError |-> FALSE]
  ELSE [threw |-> TRUE, message |-> "Problem not found", isError |-> TRUE]

\* A rejected store operation: the service does not catch it, so the handler's
\* await throws the store's error.
ServiceFailure(error) ==
  [threw |-> TRUE, message |-> error.message, isError |-> error.isError]

SuccessResponse == [kind |-> "success", status |-> 200, error |-> ""]
NotFoundResponse == [kind |-> "error", status |-> 404, error |-> "NOT_FOUND"]
NextError(message) == [kind |-> "next", status |-> 0, error |-> message]

\* try { ...; sendSuccess(...) } catch (error) { 'Problem not found' ? sendError(404) : next(error) }
\* The catch tests error instanceof Error && error.message === 'Problem not found'.
IdScopedResponseMutant(outcome) ==
  IF ~outcome.threw THEN <<SuccessResponse>>
  ELSE IF outcome.isError /\ outcome.message = "Problem not found" THEN <<NotFoundResponse>>
  ELSE <<SuccessResponse>>
IdScopedResponse(outcome) ==
  IF ~outcome.threw THEN <<SuccessResponse>>
  ELSE IF outcome.isError /\ outcome.message = "Problem not found" THEN <<NotFoundResponse>>
  ELSE <<NextError(outcome.message)>>

\* try { ...; sendSuccess(res, result) } catch (error) { next(error) }
PlainResponse(outcome) ==
  IF ~outcome.threw THEN <<SuccessResponse>> ELSE <<NextError(outcome.message)>>

(***************************************************************************)
(* The filter pipeline of one request: the controller hands the raw query  *)
(* to parseFilters, the repository hands the result to buildFilter.        *)
(***************************************************************************)
\* The raw values a client can send for a key.
KeyValues(k) ==
  CASE k = "status" ->
         {Undefined, Str(""), Str("OPEN"), StrArr(<<>>), StrArr(<<"CLOSED">>),
          StrArr(<<"OPEN", "CLOSED">>)}
    [] k = "impactLevel" ->
         {Undefined, Str(""), Str("SERVICES"), StrArr(<<>>), StrArr(<<"APPLICATION">>)}
    [] k = "severityLevel" ->
         {Undefined, Str(""), Str("ERROR"), StrArr(<<>>), StrArr(<<"AVAILABILITY">>)}
    [] k = "managementZones" ->
         {Undefined, Str(""), Str("prod"), StrArr(<<>>), StrArr(<<"dev">>)}
    [] k = "affectedEntityTypes" ->
         {Undefined, Str(""), Str("SERVICE"), StrArr(<<>>), StrArr(<<"HOST">>)}
    [] k = "entityTags" ->
         {Undefined, Str(""), Str("env:prod"), StrArr(<<>>), StrArr(<<"env:dev">>)}
    [] k = "evidenceType" ->
         {Undefined, Str(""), Str("EVENT"), StrArr(<<>>), StrArr(<<"METRIC">>)}
    [] k \in {"dateFrom", "dateTo"} ->
         {Undefined, Str(""), Str("2024-01-01"), Str("2024-01-03")}
    [] k = "search" -> {Undefined, Str(""), Str("disk"), Str("cpu")}
    [] k \in NumberKeys ->
         {Undefined, Str(""), Str("0"), Str("5"), Str("abc"), Num(0), Num(5)}
    [] OTHER ->
         {Undefined, Null, Str(""), Str("true"), Str("false"), Str("abc"), True, False}

\* The documents the built predicates are evaluated on.
ProbeDocs ==
  {[BaseDoc EXCEPT !.rootCauseEntity = rc, !.status = st, !.recentComments = rcm,
                   !.autoremediado = ar, !.funcionoAutoRemediacion = fr,
                   !.duration = du] :
     rc \in {"absent", "null", "empty", "object"},
     st \in {"OPEN", "CLOSED"},
     rcm \in {[totalCount |-> 0, comments |-> <<>>],
              [totalCount |-> 1, comments |-> <<Comment(<<"GitHub", "Actions", "ok">>)>>],
              [totalCount |-> 1, comments |-> <<Comment(<<"restarted">>)>>]},
     ar \in {Undefined, True, False},
     fr \in {Undefined, False},
     du \in {Num(0), Num(5)}}

FilterIdle ==
  /\ stage = "idle"
  /\ query = EmptyQuery
  /\ filters = EmptyQuery
  /\ mongoFilter = EmptyMongoFilter

FilterStart ==
  /\ stage = "raw"
  /\ \E k1 \in FilterKeys, k2 \in FilterKeys :
       \E v1 \in KeyValues(k1), v2 \in KeyValues(k2) :
         query = [EmptyQuery EXCEPT ![k1] = v1, ![k2] = v2]
  /\ filters = EmptyQuery
  /\ mongoFilter = EmptyMongoFilter

\* const filters = parseFilters(queryFilters)
ParseFiltersStep ==
  /\ stage = "raw"
  /\ filters' = parseFilters(query)
  /\ stage' = "parsed"
  /\ UNCHANGED <<query, mongoFilter>>

\* const mongoFilter = this.buildFilter(filters)
BuildFilterStep ==
  /\ stage = "parsed"
  /\ mongoFilter' = buildFilter(filters)
  /\ stage' = "built"
  /\ UNCHANGED <<query, filters>>

FilterSteps == ParseFiltersStep \/ BuildFilterStep

\* The query with key k left out.
Omit(q, k) == [q EXCEPT ![k] = Undefined]
\* The predicate the pipeline builds for a query.
PredicateOf(q) == buildFilter(parseFilters(q))

RawTrue == {Str("true"), True}
RawFalse == {Str("false"), False}

\* The explicit negative clause of a tri-state filter in a predicate.
NegativeClause(k, mf) ==
  IF k = "hasRootCause"
  THEN /\ mf.or = <<"rootCauseEntity_null", "rootCauseEntity_not_exists">>
       /\ ~mf.rootCauseEntity.on
  ELSE mf[k] = [on |-> TRUE, eq |-> False]

\* C3: for each tri-state filter, a raw "false"/false yields a predicate with
\* an explicit negative clause on the field, different from the predicate built
\* when the key is omitted; a raw value that is neither true nor false is
\* normalised to null and yields exactly the predicate built when the key is
\* omitted.
C3_TriStateFalseDistinctNullNoop ==
  stage = "built" =>
    \A k \in TriStateKeys :
      /\ query[k] \in RawFalse =>
           /\ filters[k] = False
           /\ NegativeClause(k, mongoFilter)
           /\ mongoFilter # PredicateOf(Omit(query, k))
      /\ query[k] \notin (RawTrue \cup RawFalse \cup {Undefined}) =>
           /\ filters[k] = Null
           /\ mongoFilter = PredicateOf(Omit(query, k))

C3_Witness ==
  /\ stage = "built"
  /\ query["hasRootCause"] = Str("false")
  /\ query["autoremediado"] = Str("abc")
  /\ mongoFilter.or # <<>>
  /\ ~mongoFilter.autoremediado.on

\* C4 as stated: hasComments is true only for "true"/true, and for every other
\* raw value the field stays unset and the predicate has no clause on
\* recentComments.totalCount.
C4_OtherValuesLeaveHasCommentsUnset ==
  stage = "built" =>
    /\ filters["hasComments"] = True <=> query["hasComments"] \in RawTrue
    /\ query["hasComments"] \notin RawTrue =>
         /\ filters["hasComments"] = Undefined
         /\ ~mongoFilter.recentComments_totalCount.on

\* C4 amended: hasComments is true only for "true"/true; when the key is absent
\* the field stays unset and the predicate has no clause on totalCount; for
\* every other raw value that is present the field is false and the predicate
\* requires recentComments.totalCount = 0.
C4_PresentOtherValuesMeanFalse ==
  stage = "built" =>
    /\ filters["hasComments"] = True <=> query["hasComments"] \in RawTrue
    /\ query["hasComments"] \in RawTrue =>
         mongoFilter.recentComments_totalCount = [on |-> TRUE, op |-> "gt", n |-> 0]
    /\ query["hasComments"] = Undefined =>
         /\ filters["hasComments"] = Undefined
         /\ ~mongoFilter.recentComments_totalCount.on
    /\ query["hasComments"] \notin (RawTrue \cup {Undefined}) =>
         /\ filters["hasComments"] = False
         /\ mongoFilter.recentComments_totalCount = [on |-> TRUE, op |-> "eq", n |-> 0]

C4_Witness ==
  /\ stage = "built"
  /\ query["hasComments"] = Str("false")
  /\ filters["hasComments"] = False
  /\ mongoFilter.recentComments_totalCount.op = "eq"

\* C5 as stated: a zero for durationMin/durationMax, as the number 0 or the
\* string "0", is dropped: filters and predicate equal those of the query
\* without the parameter.
C5_ZeroDroppedInAnyForm ==
  stage = "built" =>
    \A k \in NumberKeys :
      query[k] \in {Num(0), Str("0")} =>
        /\ filters = parseFilters(Omit(query, k))
        /\ mongoFilter = PredicateOf(Omit(query, k))

\* The duration bound a number key sets in a predicate.
DurationBound(k, mf) == IF k = "durationMin" THEN mf.duration.gte ELSE mf.duration.lte

\* C5 amended: the number 0 is dropped, filters and
\* predicate being those of the query without the parameter; the query-string
\* "0" is not dropped: it is parsed to the number 0 and the predicate bounds
\* duration by 0.
C5_NumberZeroDroppedStringZeroKept ==
  stage = "built" =>
    \A k \in NumberKeys :
      /\ query[k] = Num(0) =>
           /\ filters[k] = Undefined
           /\ filters = parseFilters(Omit(query, k))
           /\ mongoFilter = PredicateOf(Omit(query, k))
      /\ query[k] = Str("0") =>
           /\ filters[k] = Num(0)
           /\ mongoFilter.duration.on
           /\ DurationBound(k, mongoFilter) = Num(0)
           /\ mongoFilter # PredicateOf(Omit(query, k))

C5_Witness ==
  /\ stage = "built"
  /\ query["durationMin"] = Str("0")
  /\ query["durationMax"] = Num(0)
  /\ mongoFilter.duration = [on |-> TRUE, gte |-> Num(0), lte |-> Undefined]

\* C6: with all other filters equal, hasRootCause=true matches a record iff the
\* other filters match it and rootCauseEntity exists and is non-null,
\* hasRootCause=false iff the other filters match it and rootCauseEntity is
\* null or absent, so exactly one of the two matches a record the other
\* filters accept; hasRootCause null or unset adds no clause.
HasRootCause(doc) == doc.rootCauseEntity \in {"empty", "object"}
C6_RootCauseTrueFalsePartition ==
  (stage = "built" /\ query["hasRootCause"] # Undefined) =>
    LET others == PredicateOf(Omit(query, "hasRootCause"))
        flipped == PredicateOf([query EXCEPT !["hasRootCause"] =
                     IF query["hasRootCause"] \in RawTrue THEN Str("false") ELSE Str("true")])
        mfTrue == IF query["hasRootCause"] \in RawTrue THEN mongoFilter ELSE flipped
        mfFalse == IF query["hasRootCause"] \in RawFalse THEN mongoFilter ELSE flipped
    IN IF query["hasRootCause"] \in (RawTrue \cup RawFalse)
       THEN \A d \in ProbeDocs :
              /\ Matches(d, mfTrue) <=> (Matches(d, others) /\ HasRootCause(d))
              /\ Matches(d, mfFalse) <=> (Matches(d, others) /\ ~HasRootCause(d))
              /\ Matches(d, others) => (Matches(d, mfTrue) # Matches(d, mfFalse))
       ELSE mongoFilter = others

C6_Witness ==
  /\ stage = "built"
  /\ query["hasRootCause"] = Str("false")
  /\ query["status"] = Str("OPEN")
  /\ \E d \in ProbeDocs : d.rootCauseEntity = "absent" /\ Matches(d, mongoFilter)
  /\ \E d \in ProbeDocs : d.rootCauseEntity = "null" /\ ~Matches(d, mongoFilter)
  /\ \E d \in ProbeDocs : d.rootCauseEntity = "empty" /\ d.status = "OPEN"
                          /\ ~Matches(d, mongoFilter)

(***************************************************************************)
(* Reads against a collection that does not change: a client lists the     *)
(* pages of findAll one after the other, and an analytics function (or a   *)
(* direct caller with a limit) calls findAllProblems with the same filters.*)
(***************************************************************************)
MaxDocs == 3

\* The i-th document of a collection.
ReadDoc(i, st, start) ==
  [BaseDoc EXCEPT
     !.problemId = "P" \o ToString(i),
     !.status = st,
     !.startTime = start,
     !.rootCauseEntity = IF i % 3 = 1 THEN "object" ELSE IF i % 3 = 2 THEN "absent" ELSE "null",
     !.recentComments =
        IF i % 2 = 0
        THEN [totalCount |-> 1, comments |-> <<Comment(<<"GitHub", "Actions", "Success">>)>>]
        ELSE [totalCount |-> 0, comments |-> <<>>]]

ReadColls ==
  UNION {{[i \in 1..n |-> ReadDoc(i, sts[i], starts[i])] :
            sts \in [1..n -> {"OPEN", "CLOSED"}],
            starts \in [1..n -> {"2024-01-01", "2024-01-02"}]} : n \in 0..MaxDocs}

ReadFilters ==
  {parseFilters(q) : q \in
     {EmptyQuery,
      [EmptyQuery EXCEPT !["status"] = Str("OPEN")],
      [EmptyQuery EXCEPT !["hasRootCause"] = Str("false")],
      [EmptyQuery EXCEPT !["hasComments"] = Str("true"),
                         !["status"] = StrArr(<<"OPEN", "CLOSED">>)],
      [EmptyQuery EXCEPT !["dateFrom"] = Str("2024-01-02")]}}

AnalyticsFunctions ==
  {"getKPIs", "getTimeSeries", "getImpactSeverityMatrix", "getTopEntities",
   "getManagementZones", "getRemediationFunnel", "getDurationDistribution",
   "getEvidenceTypes", "getRootCauseAnalysis", "getRootCauseDistribution",
   "getImpactDistribution", "getSeverityDistribution", "getHasRootCauseDistribution",
   "getAutoremediadoDistribution", "getAutoremediationTimeSeries",
   "getAverageResolutionTimeTimeSeries"}

\* The limit argument of a findAllProblems call: the analytics functions
\* pass none.
BulkLimits(caller) ==
  IF caller \in AnalyticsFunctions THEN {Undefined}
  ELSE {Undefined, Num(0), Num(1), Num(2), Num(10001)}

\* Match counts around the default ceiling.
LargeCounts == {0, 1, 9999, 10000, 10001, 20000}

NoList == [problems |-> <<>>, total |-> 0, page |-> 0, limit |-> 0, totalPages |-> 0]
NoBulk == [done |-> FALSE, caller |-> "", limit |-> Undefined, matching |-> 0,
           materialised |-> FALSE, records |-> <<>>, len |-> 0]

ReadIdle ==
  /\ coll = <<>>
  /\ rFilters = EmptyQuery
  /\ rLimit = 0
  /\ rSortOrder = ""
  /\ nextPage = 0
  /\ seenIds = <<>>
  /\ listResult = NoList
  /\ bulk = NoBulk

ReadStart ==
  /\ coll \in ReadColls
  /\ rFilters \in ReadFilters
  /\ rLimit \in {1, 2}
  /\ rSortOrder \in {"asc", "desc"}
  /\ nextPage = 1
  /\ seenIds = <<>>
  /\ listResult = NoList
  /\ bulk = NoBulk

ProblemIdsOf(docs) == {docs[i].problemId : i \in DOMAIN docs}

\* The listing has visited every page of the result.
ListingComplete == listResult.page >= 1 /\ listResult.page >= listResult.totalPages

\* GET /problems?page=nextPage: the next page of the listing, up to one page
\* past the last.
ListPage ==
  /\ nextPage >= 1
  /\ ~bulk.done
  /\ listResult.page = 0 \/ nextPage <= listResult.totalPages + 1
  /\ listResult' \in findAll(coll, rFilters, nextPage, rLimit, "startTime", rSortOrder)
  /\ seenIds' = seenIds \o [i \in DOMAIN listResult'.problems |->
                              listResult'.problems[i].problemId]
  /\ nextPage' = nextPage + 1
  /\ UNCHANGED <<coll, rFilters, rLimit, rSortOrder, bulk>>

\* repository.findAllProblems(filters[, limit]) on the collection.
BulkCall(caller, limit) ==
  /\ ListingComplete
  /\ ~bulk.done
  /\ LET records == findAllProblems(coll, rFilters, limit)
     IN bulk' = [done |-> TRUE, caller |-> caller, limit |-> limit,
                 matching |-> CountDocuments(coll, buildFilter(rFilters)),
                 materialised |-> TRUE, records |-> records, len |-> Len(records)]
  /\ UNCHANGED <<coll, rFilters, rLimit, rSortOrder, nextPage, seenIds, listResult>>

\* The same call on a collection in which n documents match the predicate;
\* only the number of returned records is modelled.
BulkCallLarge(caller, limit, n) ==
  /\ ~bulk.done
  /\ bulk' = [done |-> TRUE, caller |-> caller, limit |-> limit, matching |-> n,
              materialised |-> FALSE, records |-> <<>>,
              len |-> findAllProblemsLength(n, limit)]
  /\ UNCHANGED <<coll, rFilters, rLimit, rSortOrder, nextPage, seenIds, listResult>>

ReadSteps ==
  \/ ListPage
  \/ \E caller \in AnalyticsFunctions \cup {"direct"} :
       \E limit \in BulkLimits(caller) : BulkCall(caller, limit)
  \/ \E n \in {10000, 10001} :
       ListingComplete /\ BulkCallLarge("getKPIs", Undefined, n)

BulkSteps ==
  \E caller \in AnalyticsFunctions \cup {"direct"} :
    \E limit \in BulkLimits(caller), n \in LargeCounts : BulkCallLarge(caller, limit, n)

(***************************************************************************)
(* Concurrent requests against one store.  Every store operation is one    *)
(* atomic step; findAll issues two of them, the page fetch and the count   *)
(* fetch, which the store serves in either order and between which other   *)
(* requests' operations can be served.                                     *)
(***************************************************************************)
MaxCalls == 3

Clients == {"c1", "c2"}
\* The ids the requests name: P1 is stored, P3 is not.  P2 is stored and no
\* request names it.
RequestIds == {"P1", "P3"}
AllIds == {"P1", "P2", "P3"}

\* The comment a client's addComment request appends.
CommentOf(c) == Comment(<<"note", c>>)

StoreDoc(i, st, rc) ==
  [BaseDoc EXCEPT !.problemId = "P" \o ToString(i), !.status = st, !.recentComments = rc]

\* Two documents, P1 and P2; P3 is never stored.  P1's totalCount can
\* disagree with its comment list from the start.
InitialComments ==
  {[totalCount |-> 0, comments |-> <<>>],
   [totalCount |-> 1, comments |-> <<Comment(<<"restarted">>)>>],
   [totalCount |-> 2, comments |-> <<Comment(<<"restarted">>)>>]}
InitialStores ==
  {<<StoreDoc(1, st, rc), StoreDoc(2, "OPEN", [totalCount |-> 0, comments |-> <<>>])>> :
     st \in {"OPEN", "CLOSED"}, rc \in InitialComments}

StoreFilters ==
  {parseFilters(q) : q \in
     {[EmptyQuery EXCEPT !["status"] = Str("OPEN")],
      [EmptyQuery EXCEPT !["hasComments"] = Str("true")]}}

NoReq == [op |-> "", problemId |-> "", status |-> "", comment |-> Comment(<<>>),
          filters |-> EmptyQuery, page |-> 0, limit |-> 0]
NoRes == [found |-> FALSE, doc |-> NoDoc, problems |-> <<>>, total |-> 0,
          pageDone |-> FALSE, countDone |-> FALSE, pageMatching |-> 0, dirty |-> FALSE]

StoreIdle ==
  /\ store = <<>>
  /\ store0 = <<>>
  /\ appended = [id \in AllIds |-> <<>>]
  /\ pc = [c \in Clients |-> "off"]
  /\ req = [c \in Clients |-> NoReq]
  /\ res = [c \in Clients |-> NoRes]
  /\ resp = [c \in Clients |-> <<>>]
  /\ calls = 0

StoreStart ==
  /\ store \in InitialStores
  /\ store0 = store
  /\ appended = [id \in AllIds |-> <<>>]
  /\ pc = [c \in Clients |-> "idle"]
  /\ req = [c \in Clients |-> NoReq]
  /\ res = [c \in Clients |-> NoRes]
  /\ resp = [c \in Clients |-> <<>>]
  /\ calls = 0

\* A findAll of another client that has done exactly one of its two reads
\* sees the store change between them.
MarkDirty(c, changed) ==
  [o \in Clients |->
     IF o # c /\ changed /\ pc[o] = "findAll" /\ (res[o].pageDone # res[o].countDone)
     THEN [res[o] EXCEPT !.dirty = TRUE]
     ELSE res[o]]

\* PATCH /problems/:problemId/status up to the repository's store operation.
UpdateStatusCall(c, id, status) ==
  /\ pc[c] = "idle"
  /\ calls < MaxCalls
  /\ LET r == updateStatus(store, id, status)
     IN /\ store' = r.docs
        /\ res' = [MarkDirty(c, r.docs # store) EXCEPT
                     ![c] = [NoRes EXCEPT !.found = r.found, !.doc = r.doc]]
  /\ req' = [req EXCEPT ![c] = [NoReq EXCEPT !.op = "updateStatus", !.problemId = id,
                                             !.status = status]]
  /\ pc' = [pc EXCEPT ![c] = "respond"]
  /\ resp' = [resp EXCEPT ![c] = <<>>]
  /\ calls' = calls + 1
  /\ UNCHANGED <<store0, appended>>

\* POST /problems/:problemId/comments up to the repository's store operation.
AddCommentCall(c, id) ==
  /\ pc[c] = "idle"
  /\ calls < MaxCalls
  /\ LET r == addComment(store, id, CommentOf(c))
     IN /\ store' = r.docs
        /\ res' = [MarkDirty(c, r.docs # store) EXCEPT
                     ![c] = [NoRes EXCEPT !.found = r.found, !.doc = r.doc]]
  /\ appended' = IF id \in ProblemIdsOf(store)
                 THEN [appended EXCEPT ![id] = Append(@, CommentOf(c))]
                 ELSE appended
  /\ req' = [req EXCEPT ![c] = [NoReq EXCEPT !.op = "addComment", !.problemId = id,
                                             !.comment = CommentOf(c)]]
  /\ pc' = [pc EXCEPT ![c] = "respond"]
  /\ resp' = [resp EXCEPT ![c] = <<>>]
  /\ calls' = calls + 1
  /\ UNCHANGED store0

\* GET /problems: findAll builds the predicate and issues both reads.
FindAllStart(c, f, page, limit) ==
  /\ pc[c] = "idle"
  /\ calls < MaxCalls
  /\ req' = [req EXCEPT ![c] = [NoReq EXCEPT !.op = "findAll", !.filters = f,
                                             !.page = page, !.limit = limit]]
  /\ res' = [res EXCEPT ![c] = NoRes]
  /\ pc' = [pc EXCEPT ![c] = "findAll"]
  /\ resp' = [resp EXCEPT ![c] = <<>>]
  /\ calls' = calls + 1
  /\ UNCHANGED <<store, store0, appended>>

\* Promise.all resolves once both reads have been served.
AfterRead(c, r) == IF r.pageDone /\ r.countDone THEN "respond" ELSE pc[c]

\* The store serves the page fetch.
FindAllPageRead(c) ==
  /\ pc[c] = "findAll"
  /\ ~res[c].pageDone
  /\ \E problems \in PageFetch(store, buildFilter(req[c].filters), req[c].page,
                                req[c].limit, "startTime", "desc") :
       LET r == [res[c] EXCEPT
                   !.problems = problems,
                   !.pageMatching = CountDocuments(store, buildFilter(req[c].filters)),
                   !.pageDone = TRUE]
       IN /\ res' = [res EXCEPT ![c] = r]
          /\ pc' = [pc EXCEPT ![c] = AfterRead(c, r)]
  /\ UNCHANGED <<store, store0, appended, req, resp, calls>>

\* The store serves the count fetch.
FindAllCountRead(c) ==
  /\ pc[c] = "findAll"
  /\ ~res[c].countDone
  /\ LET mf == buildFilter(req[c].filters)
         r == [res[c] EXCEPT !.total = CountFetch(store, mf), !.countDone = TRUE]
     IN /\ res' = [res EXCEPT ![c] = r]
        /\ pc' = [pc EXCEPT ![c] = AfterRead(c, r)]
  /\ UNCHANGED <<store, store0, appended, req, resp, calls>>

\* The service returns or throws and the controller answers.
Respond(c) ==
  /\ pc[c] = "respond"
  /\ resp' = [resp EXCEPT ![c] =
                IF req[c].op = "findAll" THEN PlainResponse(ServiceOutcome(TRUE))
                ELSE IdScopedResponse(ServiceOutcome(res[c].found))]
  /\ res' = [res EXCEPT ![c] = NoRes]
  /\ pc' = [pc EXCEPT ![c] = "idle"]
  /\ UNCHANGED <<store, store0, appended, req, calls>>

StoreSteps ==
  \E c \in Clients :
    \/ \E id \in RequestIds, status \in {"OPEN", "CLOSED"} : UpdateStatusCall(c, id, status)
    \/ \E id \in RequestIds : AddCommentCall(c, id)
    \/ \E f \in StoreFilters, limit \in {1, 2} : FindAllStart(c, f, 1, limit)
    \/ FindAllPageRead(c)
    \/ FindAllCountRead(c)
    \/ Respond(c)

(***************************************************************************)
(* The serverless entry point: one process serves the handler invocations; *)
(* an invocation that awaits database.connect() yields, and the platform   *)
(* can start another invocation in the meantime.                           *)
(***************************************************************************)
MaxInvocations == 3
Invocations == 1..MaxInvocations

InternalErrorResponse ==
  [status |-> 500, success |-> FALSE, error |-> "INTERNAL_SERVER_ERROR",
   message |-> "An error occurred processing your request"]
AppResponse == [status |-> 200, success |-> TRUE, error |-> "", message |-> ""]

ServerIdle ==
  /\ isConnected = FALSE
  /\ connectCalls = 0
  /\ connectFailures = 0
  /\ hpc = [h \in Invocations |-> "off"]
  /\ hres = [h \in Invocations |-> <<>>]
  /\ problemService = FALSE
  /\ analyticsService = FALSE
  /\ constructions = <<>>

\* The process after its modules are loaded: let isConnected = false,
\* let problemService, let analyticsService (both unset), const app = createApp().
ServerStart ==
  /\ isConnected = FALSE
  /\ connectCalls = 0
  /\ connectFailures = 0
  /\ hpc = [h \in Invocations |-> "new"]
  /\ hres = [h \in Invocations |-> <<>>]
  /\ problemService = FALSE
  /\ analyticsService = FALSE
  /\ constructions = <<>>

\* The handler is invoked and runs initDatabase up to its await: with
\* isConnected false it calls database.connect(), otherwise it goes on to
\* app(req, res).
Invoke(h) ==
  /\ hpc[h] = "new"
  /\ IF ~isConnected
     THEN /\ connectCalls' = connectCalls + 1
          /\ hpc' = [hpc EXCEPT ![h] = "connecting"]
     ELSE /\ connectCalls' = connectCalls
          /\ hpc' = [hpc EXCEPT ![h] = "app"]
  /\ UNCHANGED <<isConnected, connectFailures, hres, serviceVars>>

\* database.connect() resolves: isConnected = true, then app(req, res).
ConnectResolved(h) ==
  /\ hpc[h] = "connecting"
  /\ isConnected' = TRUE
  /\ hpc' = [hpc EXCEPT ![h] = "app"]
  /\ UNCHANGED <<connectCalls, connectFailures, hres, serviceVars>>

\* database.connect() rejects: initDatabase rethrows and the handler answers
\* 500 with the fixed body.
ConnectRejectedMutant(h) ==
  /\ hpc[h] = "connecting"
  /\ connectFailures' = connectFailures + 1
  /\ hpc' = [hpc EXCEPT ![h] = "app"]
  /\ UNCHANGED <<isConnected, connectCalls, hres, serviceVars>>
ConnectRejected(h) ==
  /\ hpc[h] = "connecting"
  /\ connectFailures' = connectFailures + 1
  /\ hres' = [hres EXCEPT ![h] = Append(@, InternalErrorResponse)]
  /\ hpc' = [hpc EXCEPT ![h] = "done"]
  /\ UNCHANGED <<isConnected, connectCalls, serviceVars>>

\* The routes of the app: the problem controller's handlers, the analytics
\* controller's handlers, and the routes that use no service.
Routes == {"problems", "analytics", "root"}

\* if (!problemService) problemService = new ProblemService();
\* return problemService: whether the call constructs the service.
getProblemServiceMutant(handle) == TRUE
getProblemService(handle) == ~handle

\* if (!analyticsService) analyticsService = new AnalyticsService()
getAnalyticsService(handle) == ~handle

\* A construction: the service, the invocation whose handler ran it and
\* whether the database was connected; the AnalyticsService constructor
\* builds a ProblemRepository, whose constructor calls
\* database.getCollection().
Construction(service, h) == [service |-> service, by |-> h, connected |-> isConnected]

\* The Express app handles the request: the handler of the route gets its
\* service, which is one synchronous check and construction.
AppHandles(h, route) ==
  /\ hpc[h] = "app"
  /\ IF route = "problems"
     THEN /\ problemService' = TRUE
          /\ constructions' = IF getProblemService(problemService)
                               THEN Append(constructions, Construction("ProblemService", h))
                               ELSE constructions
          /\ UNCHANGED analyticsService
     ELSE IF route = "analytics"
     THEN /\ analyticsService' = TRUE
          /\ constructions' = IF getAnalyticsService(analyticsService)
                               THEN Append(constructions, Construction("AnalyticsService", h))
                               ELSE constructions
          /\ UNCHANGED problemService
     ELSE UNCHANGED serviceVars
  /\ hres' = [hres EXCEPT ![h] = Append(@, AppResponse)]
  /\ hpc' = [hpc EXCEPT ![h] = "done"]
  /\ UNCHANGED <<isConnected, connectCalls, connectFailures>>

ServerSteps ==
  \E h \in Invocations :
    \/ Invoke(h)
    \/ ConnectResolved(h)
    \/ ConnectRejected(h)
    \/ \E route \in Routes : AppHandles(h, route)

(***************************************************************************)
(* The problem controller's handlers.  A handler calls its service         *)
(* function once and awaits it; the service issues one store operation.    *)
(* The store answers (with a record, or with none for an id that matches   *)
(* nothing) or rejects the operation.                                      *)
(***************************************************************************)
MaxHandlerCalls == 2
HandlerCalls == 1..MaxHandlerCalls

Handlers ==
  {"getProblems", "getProblemById", "updateProblemStatus", "addComment", "getFilterOptions"}
IdScopedHandlers == {"getProblemById", "updateProblemStatus", "addComment"}

\* The values a rejected store operation can throw: an Error with some
\* message, also the message of the service's own error, and a value that is
\* not an Error.
StoreErrors ==
  {[isError |-> TRUE, message |-> "connection lost"],
   [isError |-> TRUE, message |-> "Problem not found"],
   [isError |-> TRUE, message |-> "problem not found"],
   [isError |-> FALSE, message |-> "Problem not found"]}

NoOutcome == [threw |-> FALSE, message |-> "", isError |-> FALSE]

ControllerIdle ==
  /\ kHandler = [k \in HandlerCalls |-> ""]
  /\ kPc = [k \in HandlerCalls |-> "off"]
  /\ kStoreOps = [k \in HandlerCalls |-> 0]
  /\ kThrown = [k \in HandlerCalls |-> NoOutcome]
  /\ kAnswers = [k \in HandlerCalls |-> <<>>]

ControllerStart ==
  /\ kHandler = [k \in HandlerCalls |-> ""]
  /\ kPc = [k \in HandlerCalls |-> "new"]
  /\ kStoreOps = [k \in HandlerCalls |-> 0]
  /\ kThrown = [k \in HandlerCalls |-> NoOutcome]
  /\ kAnswers = [k \in HandlerCalls |-> <<>>]

\* What a handler does with the outcome of its awaited service call.
HandlerResponse(handler, outcome) ==
  IF handler \in IdScopedHandlers THEN IdScopedResponse(outcome)
  ELSE PlainResponse(outcome)

\* The router invokes a handler, which calls its service function; the
\* service issues its store operation.
HandlerInvoked(k, handler) ==
  /\ kPc[k] = "new"
  /\ kHandler' = [kHandler EXCEPT ![k] = handler]
  /\ kStoreOps' = [kStoreOps EXCEPT ![k] = @ + 1]
  /\ kPc' = [kPc EXCEPT ![k] = "awaiting"]
  /\ UNCHANGED <<kThrown, kAnswers>>

\* The await ends with the service's outcome and the handler answers.
HandlerEnds(k, outcome) ==
  /\ kThrown' = [kThrown EXCEPT ![k] = outcome]
  /\ kAnswers' = [kAnswers EXCEPT ![k] = @ \o HandlerResponse(kHandler[k], outcome)]
  /\ kPc' = [kPc EXCEPT ![k] = "done"]
  /\ UNCHANGED <<kHandler, kStoreOps>>

\* The store answers the operation; only an id-scoped operation can find
\* no record.
StoreAnswers(k, found) ==
  /\ kPc[k] = "awaiting"
  /\ found \/ kHandler[k] \in IdScopedHandlers
  /\ HandlerEnds(k, ServiceOutcome(found))

\* The store rejects the operation.
StoreRejects(k, error) ==
  /\ kPc[k] = "awaiting"
  /\ HandlerEnds(k, ServiceFailure(error))

ControllerSteps ==
  \E k \in HandlerCalls :
    \/ \E handler \in Handlers : HandlerInvoked(k, handler)
    \/ \E found \in BOOLEAN : StoreAnswers(k, found)
    \/ \E error \in StoreErrors : StoreRejects(k, error)

(***************************************************************************)
(* AnalyticsService.  Every function reads the records returned by         *)
(* findAllProblems(filters) and aggregates them in memory; the operators   *)
(* below take those records.                                               *)
(***************************************************************************)
\* problem.duration || 0
DurationOrZero(p) == IF Truthy(p.duration) THEN p.duration.n ELSE 0

\* ns.reduce((a, b) => a + b, 0)
RECURSIVE SumSeq(_)
SumSeq(ns) == IF ns = <<>> THEN 0 ELSE Head(ns) + SumSeq(Tail(ns))

\* Math.round(a / b) for b > 0: the nearest integer, halves towards +infinity.
MathRound(a, b) == (2 * a + b) \div (2 * b)

\* comments && comments.some(c => c.content.toLowerCase().includes(needle))
SomeCommentIncludes(p, needle) ==
  \E i \in DOMAIN p.recentComments.comments :
    Includes(ToLowerCase(p.recentComments.comments[i].content), needle)

GitHubActionsNeedle == <<"github", "actions">>

\* The durations getKPIs averages: those of the CLOSED records.
ResolutionTimesMutant(problems) ==
  [i \in DOMAIN problems |-> DurationOrZero(problems[i])]
ResolutionTimes(problems) ==
  LET closed == SelectSeq(problems, LAMBDA p : p.status = "CLOSED")
  IN [i \in DOMAIN closed |-> DurationOrZero(closed[i])]

getKPIs(problems) ==
  LET resolutionTimes == ResolutionTimes(problems)
  IN [totalProblems |-> Len(problems),
      openProblems |-> Len(SelectSeq(problems, LAMBDA p : p.status = "OPEN")),
      closedProblems |-> Len(SelectSeq(problems, LAMBDA p : p.status = "CLOSED")),
      totalDuration |-> SumSeq([i \in DOMAIN problems |-> DurationOrZero(problems[i])]),
      avgResolutionTime |->
        IF Len(resolutionTimes) > 0
        THEN MathRound(SumSeq(resolutionTimes), Len(resolutionTimes))
        ELSE 0,
      problemsWithComments |->
        Len(SelectSeq(problems, LAMBDA p : p.recentComments.totalCount > 0)),
      githubActionProblems |->
        Len(SelectSeq(problems, LAMBDA p : SomeCommentIncludes(p, GitHubActionsNeedle))),
      criticalProblems |->
        Len(SelectSeq(problems, LAMBDA p : p.severityLevel \in {"AVAILABILITY", "ERROR"}))]

\* The funnel's third stage: the records with comments that mention GitHub
\* Actions.
ProblemsWithGitHubActionsMutant(problems, problemsWithComments) ==
  SelectSeq(problems, LAMBDA p : SomeCommentIncludes(p, GitHubActionsNeedle))
ProblemsWithGitHubActions(problems, problemsWithComments) ==
  SelectSeq(problemsWithComments, LAMBDA p : SomeCommentIncludes(p, GitHubActionsNeedle))

\* The stages' names and counts (the percentages are not modelled).
getRemediationFunnel(problems) ==
  LET problemsWithComments ==
        SelectSeq(problems, LAMBDA p : p.recentComments.totalCount > 0)
      problemsWithGitHubActions ==
        ProblemsWithGitHubActions(problems, problemsWithComments)
      problemsWithSuccess ==
        SelectSeq(problemsWithGitHubActions,
                  LAMBDA p : \/ SomeCommentIncludes(p, <<"success">>)
                             \/ SomeCommentIncludes(p, <<"completed">>))
      closedProblems == SelectSeq(problems, LAMBDA p : p.status = "CLOSED")
  IN <<[name |-> "Total Problems", count |-> Len(problems)],
       [name |-> "With Comments", count |-> Len(problemsWithComments)],
       [name |-> "GitHub Actions Initiated", count |-> Len(problemsWithGitHubActions)],
       [name |-> "Remediation Successful", count |-> Len(problemsWithSuccess)],
       [name |-> "Closed", count |-> Len(closedProblems)]>>

\* The if / else-if chain of getDurationDistribution.
DurationCategoryMutant(duration) ==
  IF duration <= 5 THEN "less_than_5"
  ELSE IF duration < 10 THEN "5_to_10"
  ELSE IF duration < 30 THEN "10_to_30"
  ELSE IF duration < 180 THEN "30_to_180"
  ELSE "more_than_180"
DurationCategory(duration) ==
  IF duration < 5 THEN "less_than_5"
  ELSE IF duration < 10 THEN "5_to_10"
  ELSE IF duration < 30 THEN "10_to_30"
  ELSE IF duration < 180 THEN "30_to_180"
  ELSE "more_than_180"

DurationCategories == {"less_than_5", "5_to_10", "10_to_30", "30_to_180", "more_than_180"}

getDurationDistribution(problems) ==
  [c \in DurationCategories |->
     Cardinality({i \in DOMAIN problems :
                    DurationCategory(DurationOrZero(problems[i])) = c})]

\* rootCauseEntity !== null && rootCauseEntity !== undefined &&
\* Object.keys(rootCauseEntity).length > 0
CountsAsRootCauseMutant(p) == p.rootCauseEntity \notin {"null", "absent"}
CountsAsRootCause(p) == p.rootCauseEntity \notin {"null", "absent", "empty"}

getHasRootCauseDistribution(problems) ==
  LET withRootCause == Len(SelectSeq(problems, CountsAsRootCause))
  IN <<[name |-> "Sí", value |-> withRootCause],
       [name |-> "No", value |-> Len(problems) - withRootCause]>>

\* p.rootCauseEntity !== null && p.rootCauseEntity !== undefined
getRootCauseDistribution(problems) ==
  LET withRootCause ==
        Len(SelectSeq(problems, LAMBDA p : p.rootCauseEntity \notin {"null", "absent"}))
  IN <<[name |-> "With Root Cause", value |-> withRootCause],
       [name |-> "Without Root Cause", value |-> Len(problems) - withRootCause]>>

\* The records getAutoremediadoDistribution counts under 'Sí'.
ConAutoremediadoMutant(p) == p.autoremediado = True
ConAutoremediado(p) == SomeCommentIncludes(p, GitHubActionsNeedle)

getAutoremediadoDistribution(problems) ==
  LET conAutoremediado == Len(SelectSeq(problems, ConAutoremediado))
  IN <<[name |-> "Sí", value |-> conAutoremediado],
       [name |-> "No", value |-> Len(problems) - conAutoremediado]>>

\* The property name a value is converted to when it indexes an object: null
\* and undefined become the strings 'null' and 'undefined'.
PropertyKey(v) ==
  IF v = NullField THEN "null" ELSE IF v = Absent THEN "undefined" ELSE v

\* distribution[key] = (distribution[key] || 0) + 1; the object's entries are
\* kept in insertion order.
CountPropertyMutant(distribution, key) ==
  IF \E i \in DOMAIN distribution : distribution[i].name = key
  THEN distribution
  ELSE Append(distribution, [name |-> key, value |-> 1])
CountProperty(distribution, key) ==
  IF \E i \in DOMAIN distribution : distribution[i].name = key
  THEN [i \in DOMAIN distribution |->
          IF distribution[i].name = key
          THEN [distribution[i] EXCEPT !.value = @ + 1]
          ELSE distribution[i]]
  ELSE Append(distribution, [name |-> key, value |-> 1])

RECURSIVE DistributionOf(_)
DistributionOf(values) ==
  IF values = <<>> THEN <<>>
  ELSE CountProperty(DistributionOf(SubSeq(values, 1, Len(values) - 1)),
                     PropertyKey(values[Len(values)]))

getImpactDistribution(problems) ==
  DistributionOf([i \in DOMAIN problems |-> problems[i].impactLevel])

getSeverityDistribution(problems) ==
  DistributionOf([i \in DOMAIN problems |-> problems[i].severityLevel])

\* if (!matrix[impact]) matrix[impact] = {};
\* matrix[impact][severity] = (matrix[impact][severity] || 0) + 1
CountCell(matrix, problem) ==
  LET impact == PropertyKey(problem.impactLevel)
      severity == PropertyKey(problem.severityLevel)
  IN IF \E i \in DOMAIN matrix : matrix[i].name = impact
     THEN [i \in DOMAIN matrix |->
             IF matrix[i].name = impact
             THEN [matrix[i] EXCEPT !.row = CountProperty(@, severity)]
             ELSE matrix[i]]
     ELSE Append(matrix, [name |-> impact, row |-> CountProperty(<<>>, severity)])

RECURSIVE getImpactSeverityMatrix(_)
getImpactSeverityMatrix(problems) ==
  IF problems = <<>> THEN <<>>
  ELSE CountCell(getImpactSeverityMatrix(SubSeq(problems, 1, Len(problems) - 1)),
                 problems[Len(problems)])

\* The elements of the lists, in iteration order (forEach inside forEach).
RECURSIVE Flatten(_)
Flatten(lists) == IF lists = <<>> THEN <<>> ELSE Head(lists) \o Flatten(Tail(lists))

\* One step of getTopEntities' loop; entityMap is a Map, kept in insertion
\* order, keyed by entity.entityId.id.
CountEntity(entityMap, entity) ==
  IF \E i \in DOMAIN entityMap : entityMap[i].key = entity.id
  THEN [i \in DOMAIN entityMap |->
          IF entityMap[i].key = entity.id
          THEN [entityMap[i] EXCEPT !.count = @ + 1]
          ELSE entityMap[i]]
  ELSE Append(entityMap, [key |-> entity.id, name |-> entity.name,
                          type |-> entity.type, count |-> 1])

RECURSIVE EntityMap(_)
EntityMap(entities) ==
  IF entities = <<>> THEN <<>>
  ELSE CountEntity(EntityMap(SubSeq(entities, 1, Len(entities) - 1)),
                   entities[Len(entities)])

\* .sort((a, b) => b.count - a.count): descending, entries with equal counts
\* keep their order.
RECURSIVE InsertByCount(_, _)
InsertByCount(e, sorted) ==
  IF sorted = <<>> THEN <<e>>
  ELSE IF e.count > Head(sorted).count THEN <<e>> \o sorted
  ELSE <<Head(sorted)>> \o InsertByCount(e, Tail(sorted))

RECURSIVE SortByCount(_)
SortByCount(entries) ==
  IF entries = <<>> THEN <<>>
  ELSE InsertByCount(entries[Len(entries)],
                     SortByCount(SubSeq(entries, 1, Len(entries) - 1)))

\* getTopEntities(limit, filters) on the records read, for limit >= 0.
getTopEntities(problems, limit) ==
  LET entities ==
        SortByCount(EntityMap(Flatten([i \in DOMAIN problems |->
                                         problems[i].affectedEntities])))
  IN [i \in 1..LimitedLength(Len(entities), limit) |->
        [name |-> entities[i].name, type |-> entities[i].type,
         problemCount |-> entities[i].count]]

\* evidence.eventType || 'UNKNOWN'
EventTypeOrUnknown(evidence) ==
  IF evidence.eventType \in {Absent, ""} THEN "UNKNOWN" ELSE evidence.eventType

\* eventTypeMap.set(eventType, (eventTypeMap.get(eventType) || 0) + 1)
CountChild(children, eventType) ==
  IF \E i \in DOMAIN children : children[i].name = eventType
  THEN [i \in DOMAIN children |->
          IF children[i].name = eventType
          THEN [children[i] EXCEPT !.value = @ + 1]
          ELSE children[i]]
  ELSE Append(children, [name |-> eventType, value |-> 1])

\* One step of getEvidenceTypes' loop; both maps are kept in insertion order.
CountEvidence(evidenceMap, evidence) ==
  IF \E i \in DOMAIN evidenceMap : evidenceMap[i].name = evidence.evidenceType
  THEN [i \in DOMAIN evidenceMap |->
          IF evidenceMap[i].name = evidence.evidenceType
          THEN [evidenceMap[i] EXCEPT
                  !.children = CountChild(@, EventTypeOrUnknown(evidence))]
          ELSE evidenceMap[i]]
  ELSE Append(evidenceMap,
              [name |-> evidence.evidenceType,
               children |-> CountChild(<<>>, EventTypeOrUnknown(evidence))])

RECURSIVE EvidenceMap(_)
EvidenceMap(details) ==
  IF details = <<>> THEN <<>>
  ELSE CountEvidence(EvidenceMap(SubSeq(details, 1, Len(details) - 1)),
                     details[Len(details)])

getEvidenceTypes(problems) ==
  EvidenceMap(Flatten([i \in DOMAIN problems |-> problems[i].evidenceDetails]))

(***************************************************************************)
(* Time buckets.  An instant is a number of hours since                    *)
(* 2024-01-01T00:00:00Z (a Monday); a day is a number of days since        *)
(* 2024-01-01.  The process runs at a fixed offset tz (hours) from UTC.    *)
(***************************************************************************)
\* The stored startTime values and the instants new Date(startTime) yields.
StartTimes ==
  {"2024-01-06T20:00:00Z", "2024-01-07T02:00:00Z", "2024-02-01T01:00:00Z"}

DateParse(startTime) ==
  CASE startTime = "2024-01-06T20:00:00Z" -> 5 * 24 + 20
    [] startTime = "2024-01-07T02:00:00Z" -> 6 * 24 + 2
    [] startTime = "2024-02-01T01:00:00Z" -> 31 * 24 + 1
    [] startTime = "2024-01-01" -> 0
    [] startTime = "2024-01-02" -> 24

\* String(n).padStart(2, '0')
PadStart2(n) == IF n < 10 THEN "0" \o ToString(n) ELSE ToString(n)

\* Year, month and day of month of a day number (December 2023 to
\* February 2024).
CivilDate(day) ==
  IF day < 0 THEN [year |-> 2023, month |-> 12, date |-> 32 + day]
  ELSE IF day < 31 THEN [year |-> 2024, month |-> 1, date |-> day + 1]
  ELSE [year |-> 2024, month |-> 2, date |-> day - 30]

\* date.toISOString().split('T')[0]: the UTC date of the instant.
IsoDate(instant) ==
  LET d == CivilDate(instant \div 24)
  IN ToString(d.year) \o "-" \o PadStart2(d.month) \o "-" \o PadStart2(d.date)

\* date.getDay(): the weekday (0 = Sunday) of the instant's local date.
GetDay(instant, tz) == (((instant + tz) \div 24) + 1) % 7

\* weekStart.setDate(date.getDate() - date.getDay()): the same local time of
\* day, getDay() local days earlier.
WeekStart(instant, tz) == instant - 24 * GetDay(instant, tz)

\* `${date.getFullYear()}-${String(date.getMonth() + 1).padStart(2, '0')}`,
\* both read from the instant's local date.
MonthKey(instant, tz) ==
  LET d == CivilDate((instant + tz) \div 24)
  IN ToString(d.year) \o "-" \o PadStart2(d.month)

\* The bucket key of a record under a granularity.
TimeBucketKey(startTime, granularity, tz) ==
  LET date == DateParse(startTime)
  IN IF granularity = "day" THEN IsoDate(date)
     ELSE IF granularity = "week" THEN IsoDate(WeekStart(date, tz))
     ELSE MonthKey(date, tz)

\* The keys a series can hold, in the order of a.localeCompare(b); the keys
\* of one series have one format, whose string order is the order of dates.
KeysInOrder(granularity) ==
  IF granularity = "month" THEN <<"2023-12", "2024-01", "2024-02">>
  ELSE [i \in 1..48 |-> IsoDate((i - 10) * 24)]

\* Array.from(map.entries()).sort(by timestamp): the keys present, ascending.
SortedKeys(keys, granularity) ==
  SelectSeq(KeysInOrder(granularity), LAMBDA k : k \in keys)

BucketOf(problems, key, granularity, tz) ==
  SelectSeq(problems, LAMBDA p : TimeBucketKey(p.startTime, granularity, tz) = key)

BucketKeys(problems, granularity, tz) ==
  {TimeBucketKey(problems[i].startTime, granularity, tz) : i \in DOMAIN problems}

getTimeSeries(problems, granularity, tz) ==
  LET keys == SortedKeys(BucketKeys(problems, granularity, tz), granularity)
  IN [k \in DOMAIN keys |->
        LET bucket == BucketOf(problems, keys[k], granularity, tz)
        IN [timestamp |-> keys[k],
            severityBreakdown |->
              [s \in {bucket[i].severityLevel : i \in DOMAIN bucket} |->
                 Len(SelectSeq(bucket, LAMBDA p : p.severityLevel = s))]]]

getAutoremediationTimeSeries(problems, granularity, tz) ==
  LET autoremediatedProblems == SelectSeq(problems, ConAutoremediado)
      keys == SortedKeys(BucketKeys(autoremediatedProblems, granularity, tz), granularity)
  IN [k \in DOMAIN keys |->
        [timestamp |-> keys[k],
         count |-> Len(BucketOf(autoremediatedProblems, keys[k], granularity, tz))]]

getAverageResolutionTimeTimeSeriesMutant(problems, granularity, tz) ==
  LET keys == SortedKeys(BucketKeys(problems, granularity, tz), granularity)
  IN [k \in DOMAIN keys |->
        LET bucket == BucketOf(problems, keys[k], granularity, tz)
        IN [timestamp |-> keys[k],
            avgResolutionTime |->
              MathRound(SumSeq([i \in DOMAIN bucket |-> DurationOrZero(bucket[i])]),
                        Len(bucket))]]
getAverageResolutionTimeTimeSeries(problems, granularity, tz) ==
  LET closedProblems == SelectSeq(problems, LAMBDA p : p.status = "CLOSED")
      keys == SortedKeys(BucketKeys(closedProblems, granularity, tz), granularity)
  IN [k \in DOMAIN keys |->
        LET bucket == BucketOf(closedProblems, keys[k], granularity, tz)
        IN [timestamp |-> keys[k],
            avgResolutionTime |->
              MathRound(SumSeq([i \in DOMAIN bucket |-> DurationOrZero(bucket[i])]),
                        Len(bucket))]]

\* collection.distinct(field): the distinct values the documents hold at the
\* path; a document without the field contributes none, a null is a value.
Distinct(docs, Path(_)) == (UNION {Path(docs[i]) : i \in DOMAIN docs}) \ {Absent}

\* values.filter(v => v !== null && v !== undefined)
getDistinctValuesMutant(values) == values
getDistinctValues(values) == values \ {NullField}

\* tags.add(tag.stringRepresentation) when it is truthy; a Set keeps
\* insertion order and holds a value once.
RECURSIVE CollectTags(_)
CollectTags(entityTags) ==
  IF entityTags = <<>> THEN <<>>
  ELSE LET tags == CollectTags(SubSeq(entityTags, 1, Len(entityTags) - 1))
           tag == entityTags[Len(entityTags)]
       IN IF tag \in {Absent, NullField, ""} \/ tag \in Range(tags) THEN tags
          ELSE Append(tags, tag)

\* ProblemRepository.getFilterOptions; the distinct-value lists are modelled
\* as sets (the store returns each value once, in no promised order).
getFilterOptions(docs) ==
  [impactLevels |-> getDistinctValues(Distinct(docs, LAMBDA d : {d.impactLevel})),
   severityLevels |-> getDistinctValues(Distinct(docs, LAMBDA d : {d.severityLevel})),
   statuses |-> getDistinctValues(Distinct(docs, LAMBDA d : {d.status})),
   managementZones |->
     getDistinctValues(Distinct(docs, LAMBDA d : Range(d.managementZones))),
   entityTypes |->
     getDistinctValues(Distinct(docs, LAMBDA d :
        {d.affectedEntities[i].type : i \in DOMAIN d.affectedEntities})),
   evidenceTypes |->
     getDistinctValues(Distinct(docs, LAMBDA d :
        {d.evidenceDetails[i].evidenceType : i \in DOMAIN d.evidenceDetails})),
   tags |-> CollectTags(Flatten([i \in DOMAIN docs |-> docs[i].entityTags]))]

(***************************************************************************)
(* Analytics requests against a collection that does not change: a step    *)
(* is one request and records its result.                                  *)
(***************************************************************************)
MaxRecords == 3
MaxSeries == 3

GitHubSuccess == [totalCount |-> 1,
                  comments |-> <<Comment(<<"GitHub", "Actions", "Success">>)>>]
WebEntity == [name |-> "web", id |-> "E1", type |-> "SERVICE"]
DbEntity == [name |-> "db", id |-> "E2", type |-> "HOST"]

\* The documents the collections are built from.
AnalyticsDocs ==
  {[BaseDoc EXCEPT !.status = "OPEN", !.severityLevel = "AVAILABILITY",
                   !.duration = Num(4), !.autoremediado = True],
   [BaseDoc EXCEPT !.status = "CLOSED", !.duration = Num(45),
                   !.recentComments = GitHubSuccess,
                   !.autoremediado = True,
                   !.rootCauseEntity = "empty",
                   !.affectedEntities = <<WebEntity, WebEntity>>,
                   !.entityTags = <<"env:prod", "", "env:prod">>,
                   !.evidenceDetails = <<[evidenceType |-> "EVENT", eventType |-> Absent]>>],
   [BaseDoc EXCEPT !.status = "CLOSED", !.severityLevel = "PERFORMANCE",
                   !.duration = Num(200),
                   !.recentComments =
                      [totalCount |-> 1, comments |-> <<Comment(<<"restarted">>)>>],
                   !.rootCauseEntity = "null",
                   !.impactLevel = NullField,
                   !.affectedEntities = <<DbEntity, WebEntity>>,
                   !.entityTags = <<"team:a", Absent>>,
                   !.evidenceDetails =
                      <<[evidenceType |-> "METRIC", eventType |-> "CPU"],
                        [evidenceType |-> "EVENT", eventType |-> "ERROR_EVENT"]>>],
   [BaseDoc EXCEPT !.severityLevel = "PERFORMANCE", !.duration = Undefined,
                   !.recentComments =
                      [totalCount |-> 0,
                       comments |-> <<Comment(<<"GITHUB", "ACTIONS", "completed">>)>>],
                   !.rootCauseEntity = "absent",
                   !.impactLevel = Absent,
                   !.managementZones = <<>>,
                   !.affectedEntities = <<>>,
                   !.entityTags = <<>>,
                   !.evidenceDetails = <<>>],
   [BaseDoc EXCEPT !.status = "CLOSED", !.duration = Num(-3),
                   !.recentComments =
                      [totalCount |-> 2,
                       comments |-> <<Comment(<<"github", "actions", "started">>),
                                      Comment(<<"failed">>)>>],
                   !.autoremediado = False,
                   !.affectedEntities = <<DbEntity>>,
                   !.evidenceDetails = <<[evidenceType |-> "EVENT", eventType |-> ""]>>],
   [BaseDoc EXCEPT !.severityLevel = "CUSTOM_ALERT", !.duration = Num(5)],
   [BaseDoc EXCEPT !.status = "CLOSED", !.severityLevel = "AVAILABILITY",
                   !.duration = Num(180), !.rootCauseEntity = "empty"],
   [BaseDoc EXCEPT !.severityLevel = "RESOURCE_CONTENTION", !.duration = Num(10),
                   !.rootCauseEntity = "null"],
   [BaseDoc EXCEPT !.status = "CLOSED", !.duration = Num(30)]}

\* The collections of at most n documents of a set, problemId unique.
CollectionsOf(docs, n) ==
  UNION {{[i \in 1..k |-> [c[i] EXCEPT !.problemId = "P" \o ToString(i)]] :
            c \in [1..k -> docs]} : k \in 0..n}

AnalyticsFilters ==
  {Undefined,
   parseFilters([EmptyQuery EXCEPT !["status"] = Str("CLOSED")]),
   parseFilters([EmptyQuery EXCEPT !["autoremediado"] = Str("true")])}

TopEntitiesLimits == {0, 1, 10}

\* The documents of the time-series collections.
SeriesDocs ==
  {[BaseDoc EXCEPT !.startTime = start, !.status = v.status,
                   !.severityLevel = v.severityLevel, !.duration = v.duration,
                   !.recentComments = v.recentComments] :
     start \in StartTimes,
     v \in {[status |-> "OPEN", severityLevel |-> "ERROR", duration |-> Num(4),
             recentComments |-> [totalCount |-> 0, comments |-> <<>>]],
            [status |-> "CLOSED", severityLevel |-> "PERFORMANCE", duration |-> Num(45),
             recentComments |-> GitHubSuccess],
            [status |-> "CLOSED", severityLevel |-> "ERROR", duration |-> Num(46),
             recentComments |-> [totalCount |-> 0, comments |-> <<>>]]}}

TimeZoneOffsets == {-5, 0, 9}
Granularities == {"day", "week", "month"}

NoResult == [fn |-> "", limit |-> 0, granularity |-> "", out |-> <<>>]

AnalyticsIdle ==
  /\ aColl = <<>>
  /\ aFilters = Undefined
  /\ tzOffset = 0
  /\ aResult = NoResult

AnalyticsStart ==
  /\ aColl \in CollectionsOf(AnalyticsDocs, MaxRecords)
  /\ aFilters \in AnalyticsFilters
  /\ tzOffset = 0
  /\ aResult = NoResult

SeriesStart ==
  /\ aColl \in CollectionsOf(SeriesDocs, MaxSeries)
  /\ aFilters = Undefined
  /\ tzOffset \in TimeZoneOffsets
  /\ aResult = NoResult

\* const problems = await this.repository.findAllProblems(filters)
AnalyticsProblems == findAllProblems(aColl, aFilters, Undefined)

\* The functions keep no state between requests: a behaviour is one request
\* and its result.
Answer(fn, limit, granularity, out) ==
  /\ aResult = NoResult
  /\ aResult' = [fn |-> fn, limit |-> limit, granularity |-> granularity, out |-> out]
  /\ UNCHANGED <<aColl, aFilters, tzOffset>>

GetKPIs == Answer("getKPIs", 0, "", getKPIs(AnalyticsProblems))
GetRemediationFunnel ==
  Answer("getRemediationFunnel", 0, "", getRemediationFunnel(AnalyticsProblems))
GetDurationDistribution ==
  Answer("getDurationDistribution", 0, "", getDurationDistribution(AnalyticsProblems))
GetTopEntities(limit) ==
  Answer("getTopEntities", limit, "", getTopEntities(AnalyticsProblems, limit))
GetEvidenceTypes ==
  Answer("getEvidenceTypes", 0, "", getEvidenceTypes(AnalyticsProblems))
GetHasRootCauseDistribution ==
  Answer("getHasRootCauseDistribution", 0, "",
         getHasRootCauseDistribution(AnalyticsProblems))
GetImpactSeverityMatrix ==
  Answer("getImpactSeverityMatrix", 0, "", getImpactSeverityMatrix(AnalyticsProblems))
GetRootCauseDistribution ==
  Answer("getRootCauseDistribution", 0, "", getRootCauseDistribution(AnalyticsProblems))
GetImpactDistribution ==
  Answer("getImpactDistribution", 0, "", getImpactDistribution(AnalyticsProblems))
GetSeverityDistribution ==
  Answer("getSeverityDistribution", 0, "", getSeverityDistribution(AnalyticsProblems))
GetAutoremediadoDistribution ==
  Answer("getAutoremediadoDistribution", 0, "",
         getAutoremediadoDistribution(AnalyticsProblems))
GetFilterOptions == Answer("getFilterOptions", 0, "", getFilterOptions(aColl))

GetTimeSeries(granularity) ==
  Answer("getTimeSeries", 0, granularity,
         getTimeSeries(AnalyticsProblems, granularity, tzOffset))
GetAutoremediationTimeSeries(granularity) ==
  Answer("getAutoremediationTimeSeries", 0, granularity,
         getAutoremediationTimeSeries(AnalyticsProblems, granularity, tzOffset))
GetAverageResolutionTimeTimeSeries(granularity) ==
  Answer("getAverageResolutionTimeTimeSeries", 0, granularity,
         getAverageResolutionTimeTimeSeries(AnalyticsProblems, granularity, tzOffset))

AnalyticsSteps ==
  \/ GetKPIs
  \/ GetRemediationFunnel
  \/ GetDurationDistribution
  \/ \E limit \in TopEntitiesLimits : GetTopEntities(limit)
  \/ GetEvidenceTypes
  \/ GetHasRootCauseDistribution
  \/ GetImpactSeverityMatrix
  \/ GetRootCauseDistribution
  \/ GetImpactDistribution
  \/ GetSeverityDistribution
  \/ GetAutoremediadoDistribution
  \/ GetAutoremediationTimeSeries("day")
  \/ GetFilterOptions

SeriesSteps ==
  \E granularity \in Granularities :
    \/ GetTimeSeries(granularity)
    \/ GetAutoremediationTimeSeries(granularity)
    \/ GetAverageResolutionTimeTimeSeries(granularity)

FilterInit == FilterStart /\ ReadIdle /\ StoreIdle /\ ServerIdle /\ AnalyticsIdle /\ ControllerIdle
FilterNext == FilterSteps /\ UNCHANGED <<readVars, storeVars, serverVars, analyticsVars, controllerVars>>
SpecFilter == FilterInit /\ [][FilterNext]_vars

ReadInit == ReadStart /\ FilterIdle /\ StoreIdle /\ ServerIdle /\ AnalyticsIdle /\ ControllerIdle
ReadNext == ReadSteps /\ UNCHANGED <<filterVars, storeVars, serverVars, analyticsVars, controllerVars>>
SpecRead == ReadInit /\ [][ReadNext]_vars

BulkInit == ReadIdle /\ FilterIdle /\ StoreIdle /\ ServerIdle /\ AnalyticsIdle /\ ControllerIdle
BulkNext == BulkSteps /\ UNCHANGED <<filterVars, storeVars, serverVars, analyticsVars, controllerVars>>
SpecBulk == BulkInit /\ [][BulkNext]_vars

StoreInit == StoreStart /\ FilterIdle /\ ReadIdle /\ ServerIdle /\ AnalyticsIdle /\ ControllerIdle
StoreNext == StoreSteps /\ UNCHANGED <<filterVars, readVars, serverVars, analyticsVars, controllerVars>>
SpecStore == StoreInit /\ [][StoreNext]_vars

ServerInit == ServerStart /\ FilterIdle /\ ReadIdle /\ StoreIdle /\ AnalyticsIdle /\ ControllerIdle
ServerNext == ServerSteps /\ UNCHANGED <<filterVars, readVars, storeVars, analyticsVars, controllerVars>>
SpecServerless == ServerInit /\ [][ServerNext]_vars

AnalyticsInit == AnalyticsStart /\ FilterIdle /\ ReadIdle /\ StoreIdle /\ ServerIdle /\ ControllerIdle
AnalyticsNext == AnalyticsSteps /\ UNCHANGED <<filterVars, readVars, storeVars, serverVars, controllerVars>>
SpecAnalytics == AnalyticsInit /\ [][AnalyticsNext]_vars

SeriesInit == SeriesStart /\ FilterIdle /\ ReadIdle /\ StoreIdle /\ ServerIdle /\ ControllerIdle
SeriesNext == SeriesSteps /\ UNCHANGED <<filterVars, readVars, storeVars, serverVars, controllerVars>>
SpecTimeSeries == SeriesInit /\ [][SeriesNext]_vars

ControllerInit ==
  ControllerStart /\ FilterIdle /\ ReadIdle /\ StoreIdle /\ ServerIdle /\ AnalyticsIdle
ControllerNext ==
  ControllerSteps /\ UNCHANGED <<filterVars, readVars, storeVars, serverVars, analyticsVars>>
SpecController == ControllerInit /\ [][ControllerNext]_vars

\* C2: against an unchanged store with at most 10,000 records matching F, the
\* total returned by findAll equals the length of findAllProblems(F), and the
\* problemIds listed over all pages of findAll are exactly those returned by
\* findAllProblems(F).
C2_ListAndBulkSelectSameRecords ==
  (bulk.done /\ bulk.limit = Undefined /\ bulk.matching <= DefaultBulkLimit) =>
    /\ bulk.len = bulk.matching
    /\ bulk.materialised =>
         /\ listResult.page >= 1 => listResult.total = bulk.len
         /\ ListingComplete => Range(seenIds) = ProblemIdsOf(bulk.records)
         /\ Range(seenIds) \subseteq ProblemIdsOf(bulk.records)

\* C11: against an unchanged store, for page >= 1 and limit >= 1, findAll
\* returns total = number of matching records, totalPages = ceil(total/limit)
\* and a page of at most limit records in sort order; every page beyond
\* totalPages is empty, and pages 1..totalPages together contain every
\* matching record exactly once.
C11_PagesPartitionTheMatches ==
  listResult.page >= 1 =>
    LET matching == Find(coll, buildFilter(rFilters))
        page == listResult.problems
    IN /\ listResult.total = Len(matching)
       /\ listResult.totalPages = CeilDiv(listResult.total, rLimit)
       /\ Len(page) <= rLimit
       /\ \A i, j \in DOMAIN page :
            i < j => ~SortsBefore(page[j], page[i], "startTime",
                                  IF rSortOrder = "asc" THEN 1 ELSE -1)
       /\ listResult.page > listResult.totalPages => page = <<>>
       /\ nextPage - 1 >= listResult.totalPages =>
            /\ Len(seenIds) = listResult.total
            /\ Range(seenIds) = ProblemIdsOf(matching)

\* C10 as stated: without a limit findAllProblems returns at most 10,000
\* records, truncating larger match sets; with an explicit limit L it returns
\* at most L records, L replacing the ceiling; every analytics function
\* aggregates at most 10,000 records.
C10_ExplicitLimitAlwaysApplied ==
  bulk.done =>
    /\ bulk.limit = Undefined => bulk.len = LimitedLength(bulk.matching, DefaultBulkLimit)
    /\ bulk.limit # Undefined => bulk.len = LimitedLength(bulk.matching, bulk.limit.n)
    /\ bulk.caller \in AnalyticsFunctions => bulk.len <= DefaultBulkLimit

\* C10 amended: without a limit, or with the limit 0 (which the code treats as
\* no limit), findAllProblems returns min(matches, 10,000) records, truncating
\* larger match sets; with an explicit limit L >= 1 it returns min(matches, L)
\* records, L replacing the ceiling; every analytics function passes no limit
\* and aggregates at most 10,000 records.
C10_PositiveLimitAppliedElseCeiling ==
  bulk.done =>
    /\ (bulk.limit = Undefined \/ bulk.limit = Num(0)) =>
         bulk.len = LimitedLength(bulk.matching, DefaultBulkLimit)
    /\ (bulk.limit.t = "number" /\ bulk.limit.n >= 1) =>
         bulk.len = LimitedLength(bulk.matching, bulk.limit.n)
    /\ bulk.caller \in AnalyticsFunctions =>
         bulk.limit = Undefined /\ bulk.len <= DefaultBulkLimit

C10_Witness ==
  /\ bulk.done
  /\ bulk.caller = "getTopEntities"
  /\ bulk.matching = 10001
  /\ bulk.len = DefaultBulkLimit


\* C1: for a record whose totalCount initially equals the length of its
\* comment list, in every reachable store state totalCount equals the length
\* of the comment list, and the list is the initial list followed by the
\* comment of every addComment call that found the record, in the order the
\* store served them.
C1_CommentCountMatchesList ==
  \A i \in DOMAIN store :
    store0[i].recentComments.totalCount = Len(store0[i].recentComments.comments) =>
      /\ store[i].recentComments.totalCount = Len(store[i].recentComments.comments)
      /\ store[i].recentComments.comments =
           store0[i].recentComments.comments \o appended[store[i].problemId]

C1_Witness ==
  /\ Len(store) >= 1
  /\ store0[1].recentComments.totalCount = 1
  /\ Len(appended["P1"]) = 2
  /\ store[1].status # store0[1].status
  /\ store[1].recentComments.totalCount = 3

\* C7: the total findAll returns equals the number of records matching the
\* predicate in the store state its page was read from whenever the store did
\* not change between its two reads, and there is an interleaving with a
\* concurrent mutation in which the two differ (a non-empty page whose length
\* exceeds the total).
C7_TotalAndPageConsistentOnlyWithoutMutation ==
  \A c \in Clients :
    (req[c].op = "findAll" /\ res[c].pageDone /\ res[c].countDone) =>
      /\ ~res[c].dirty => res[c].total = res[c].pageMatching
      /\ Len(res[c].problems) <= res[c].pageMatching

C7_Witness ==
  \E c \in Clients :
    /\ req[c].op = "findAll"
    /\ pc[c] = "respond"
    /\ res[c].dirty
    /\ Len(res[c].problems) > res[c].total
    /\ res[c].total # res[c].pageMatching

\* C9: updateStatus with a problemId that matches no record returns null and
\* leaves every record unchanged, and the controller then answers with the
\* NOT_FOUND 404 error and no success response; when the id matches, exactly
\* that record's status is set to the requested value, every other record is
\* unchanged, and the updated record is returned.
C9_Step ==
  \A c \in Clients :
    /\ (pc[c] = "idle" /\ pc'[c] = "respond" /\ req'[c].op = "updateStatus") =>
         LET id == req'[c].problemId
         IN IF id \notin ProblemIdsOf(store)
            THEN /\ store' = store
                 /\ ~res'[c].found
                 /\ res'[c].doc = NoDoc
            ELSE /\ Len(store') = Len(store)
                 /\ \A i \in DOMAIN store :
                      store'[i] = IF store[i].problemId = id
                                  THEN [store[i] EXCEPT !.status = req'[c].status]
                                  ELSE store[i]
                 /\ res'[c].found
                 /\ res'[c].doc.problemId = id
                 /\ res'[c].doc \in {store'[i] : i \in DOMAIN store'}
    /\ (pc[c] = "respond" /\ pc'[c] = "idle" /\ req[c].op = "updateStatus") =>
         resp'[c] = IF res[c].found THEN <<SuccessResponse>> ELSE <<NotFoundResponse>>
C9_UpdateStatusNotFoundOrExactlyOne == [][C9_Step]_vars

C9_Witness ==
  /\ pc["c1"] = "idle" /\ req["c1"].op = "updateStatus" /\ req["c1"].problemId = "P3"
  /\ resp["c1"] = <<NotFoundResponse>>
  /\ pc["c2"] = "idle" /\ req["c2"].op = "updateStatus" /\ req["c2"].problemId = "P1"
  /\ resp["c2"] = <<SuccessResponse>>
  /\ store[1].status = req["c2"].status
  /\ store[1].status # store0[1].status
  /\ store[Len(store)] = store0[Len(store)]

\* C8: over any interleaving of handler invocations in one process,
\* database.connect() is invoked again only after a previous attempt failed:
\* the number of calls never exceeds one plus the number of failed attempts.
C8_ConnectAgainOnlyAfterFailure == connectCalls <= 1 + connectFailures

\* The number of indices of a sequence that satisfy a test.
CountOf(seq, Test(_)) == Cardinality({i \in DOMAIN seq : Test(seq[i])})

\* C12: for any record set, also with records whose totalCount disagrees with
\* their comment list, the funnel's first four counts never increase: Total
\* Problems >= With Comments >= GitHub Actions Initiated >= Remediation
\* Successful; the Closed count is the number of CLOSED records, whatever the
\* other stages are.
C12_FunnelStagesNonIncreasing ==
  aResult.fn = "getRemediationFunnel" =>
    LET stages == aResult.out
    IN /\ <<stages[1].name, stages[2].name, stages[3].name, stages[4].name,
            stages[5].name>>
          = <<"Total Problems", "With Comments", "GitHub Actions Initiated",
              "Remediation Successful", "Closed">>
       /\ stages[1].count = Len(AnalyticsProblems)
       /\ stages[1].count >= stages[2].count
       /\ stages[2].count >= stages[3].count
       /\ stages[3].count >= stages[4].count
       /\ stages[5].count = CountOf(AnalyticsProblems, LAMBDA p : p.status = "CLOSED")

C12_Witness ==
  /\ aResult.fn = "getRemediationFunnel"
  /\ \E i \in DOMAIN AnalyticsProblems :
       /\ AnalyticsProblems[i].recentComments.totalCount = 0
       /\ AnalyticsProblems[i].recentComments.comments # <<>>
  /\ aResult.out[1].count = 3
  /\ aResult.out[4].count = 1
  /\ aResult.out[5].count > aResult.out[2].count

\* The half-open interval of a duration category.
InCategory(c, d) ==
  CASE c = "less_than_5" -> d < 5
    [] c = "5_to_10" -> 5 <= d /\ d < 10
    [] c = "10_to_30" -> 10 <= d /\ d < 30
    [] c = "30_to_180" -> 30 <= d /\ d < 180
    [] c = "more_than_180" -> 180 <= d

\* C13: getDurationDistribution puts every record in exactly one of the five
\* categories, so the counts sum to the number of records, whatever the
\* durations (negative, zero, missing); a stored duration is counted in the
\* category whose interval [0,5), [5,10), [10,30), [30,180), [180,inf) holds
\* it, a negative one in less_than_5.
C13_DurationCategoriesPartition ==
  aResult.fn = "getDurationDistribution" =>
    LET out == aResult.out
        stored == SelectSeq(AnalyticsProblems, LAMBDA p : p.duration.t = "number")
    IN /\ DOMAIN out = DurationCategories
       /\ out["less_than_5"] + out["5_to_10"] + out["10_to_30"] + out["30_to_180"]
            + out["more_than_180"] = Len(AnalyticsProblems)
       /\ \A c \in DurationCategories :
            out[c] >= CountOf(stored, LAMBDA p : InCategory(c, p.duration.n))
       /\ Len(stored) = Len(AnalyticsProblems) =>
            \A c \in DurationCategories :
              out[c] = CountOf(stored, LAMBDA p : InCategory(c, p.duration.n))

C13_Witness ==
  /\ aResult.fn = "getDurationDistribution"
  /\ Len(AnalyticsProblems) = 3
  /\ \E i \in DOMAIN AnalyticsProblems : AnalyticsProblems[i].duration = Undefined
  /\ \E i \in DOMAIN AnalyticsProblems : AnalyticsProblems[i].duration = Num(-3)
  /\ \E i \in DOMAIN AnalyticsProblems : AnalyticsProblems[i].duration = Num(5)
  /\ aResult.out["less_than_5"] = 2
  /\ aResult.out["5_to_10"] = 1

\* The records of the KPI scenario: durations 4 (OPEN), 45 and 200 (CLOSED).
KpiScenario(problems) ==
  /\ Len(problems) = 3
  /\ <<problems[1].duration, problems[2].duration, problems[3].duration>>
       = <<Num(4), Num(45), Num(200)>>
  /\ <<problems[1].status, problems[2].status, problems[3].status>>
       = <<"OPEN", "CLOSED", "CLOSED">>

\* C14: getKPIs returns totalProblems = number of records, openProblems and
\* closedProblems = the numbers with status OPEN and CLOSED, criticalProblems =
\* the number with severity AVAILABILITY or ERROR, githubActionProblems = the
\* number with a comment containing "github actions" in any case, and
\* avgResolutionTime = the mean stored duration of the CLOSED records rounded
\* to the nearest integer, 0 when no record is CLOSED; durations 4 OPEN, 45
\* CLOSED, 200 CLOSED give 3/1/2, average 123, critical 2, githubAction 1.
C14_KpisCountAndAverage ==
  aResult.fn = "getKPIs" =>
    LET out == aResult.out
        problems == AnalyticsProblems
        closed == {i \in DOMAIN problems : problems[i].status = "CLOSED"}
        sum == SumSeq([i \in DOMAIN problems |->
                         IF i \in closed /\ problems[i].duration.t = "number"
                         THEN problems[i].duration.n ELSE 0])
        n == Cardinality(closed)
        distance == 2 * (out.avgResolutionTime * n - sum)
    IN /\ out.totalProblems = Len(problems)
       /\ out.openProblems = CountOf(problems, LAMBDA p : p.status = "OPEN")
       /\ out.closedProblems = n
       /\ out.criticalProblems =
            CountOf(problems, LAMBDA p : p.severityLevel \in {"AVAILABILITY", "ERROR"})
       /\ out.githubActionProblems =
            CountOf(problems, LAMBDA p :
              \E i \in DOMAIN p.recentComments.comments :
                Includes(ToLowerCase(p.recentComments.comments[i].content),
                         <<"github", "actions">>))
       /\ n = 0 => out.avgResolutionTime = 0
       /\ n > 0 => -n <= distance /\ distance <= n
       /\ KpiScenario(problems) =>
            /\ <<out.totalProblems, out.openProblems, out.closedProblems>> = <<3, 1, 2>>
            /\ out.avgResolutionTime = 123
            /\ out.criticalProblems = 2
            /\ out.githubActionProblems = 1

C14_Witness ==
  /\ aResult.fn = "getKPIs"
  /\ KpiScenario(AnalyticsProblems)
  /\ aResult.out.avgResolutionTime = 123

\* The calendar date a stored startTime names, and the Sunday on or before it.
CalendarDate(startTime) ==
  CASE startTime = "2024-01-06T20:00:00Z" -> [date |-> "2024-01-06", sunday |-> "2023-12-31"]
    [] startTime = "2024-01-07T02:00:00Z" -> [date |-> "2024-01-07", sunday |-> "2024-01-07"]
    [] startTime = "2024-02-01T01:00:00Z" -> [date |-> "2024-02-01", sunday |-> "2024-01-28"]

\* The records a time-series function buckets.
SeriesRecords(fn) ==
  IF fn = "getAutoremediationTimeSeries"
  THEN SelectSeq(AnalyticsProblems, LAMBDA p : SomeCommentIncludes(p, GitHubActionsNeedle))
  ELSE IF fn = "getAverageResolutionTimeTimeSeries"
  THEN SelectSeq(AnalyticsProblems, LAMBDA p : p.status = "CLOSED")
  ELSE AnalyticsProblems

\* C15: in the three time-series functions, at every time-zone offset of the
\* process, the day key of a record is its startTime's calendar date whatever
\* the time of day, and its week key is that date when it is a Sunday and
\* otherwise the date of the preceding Sunday.
C15_DayAndWeekKeysFollowCalendarDate ==
  (/\ aResult.fn \in {"getTimeSeries", "getAutoremediationTimeSeries",
                      "getAverageResolutionTimeTimeSeries"}
   /\ aResult.granularity \in {"day", "week"}) =>
    LET records == SeriesRecords(aResult.fn)
    IN {aResult.out[i].timestamp : i \in DOMAIN aResult.out}
         = {IF aResult.granularity = "day"
            THEN CalendarDate(records[i].startTime).date
            ELSE CalendarDate(records[i].startTime).sunday : i \in DOMAIN records}

\* The stored documents a filter set selects.
StoredMatching == Find(aColl, BulkFilter(aFilters))

\* C16: for any filter set, getTopEntities returns one entry per distinct
\* affected-entity id of the matching stored records, with problemCount = the
\* number of occurrences of the id over all records' affectedEntities lists
\* and name = the entity's stored name, ordered by problemCount descending and
\* cut to the caller's limit.
C16_TopEntitiesCountStoredIds ==
  aResult.fn = "getTopEntities" =>
    LET stored == Flatten([i \in DOMAIN StoredMatching |->
                             StoredMatching[i].affectedEntities])
        ids == {stored[i].id : i \in DOMAIN stored}
        Occurrences(id) == CountOf(stored, LAMBDA e : e.id = id)
        out == aResult.out
    IN /\ Len(out) = LimitedLength(Cardinality(ids), aResult.limit)
       /\ \A i, j \in DOMAIN out : i < j => out[i].problemCount >= out[j].problemCount
       /\ \E chosen \in [DOMAIN out -> ids] :
            /\ \A i, j \in DOMAIN out : i # j => chosen[i] # chosen[j]
            /\ \A i \in DOMAIN out :
                 /\ out[i].problemCount = Occurrences(chosen[i])
                 /\ \E k \in DOMAIN stored :
                      stored[k].id = chosen[i] /\ stored[k].name = out[i].name
            /\ \A id \in ids \ {chosen[i] : i \in DOMAIN out} :
                 \A i \in DOMAIN out : Occurrences(id) <= out[i].problemCount

\* C17: for any filter set, getEvidenceTypes counts every stored evidence
\* detail with evidenceType T and eventType E under child E of group T, and
\* under child "UNKNOWN" only a detail stored without eventType; the child
\* values sum to the number of evidence details of the matching records.
C17_EvidenceCountedUnderStoredEventType ==
  aResult.fn = "getEvidenceTypes" =>
    LET stored == Flatten([i \in DOMAIN StoredMatching |->
                             StoredMatching[i].evidenceDetails])
        hasEventType(e) == e.eventType \notin {Absent, ""}
        groups == aResult.out
        ChildValue(T, E) ==
          SumSeq(Flatten([g \in DOMAIN groups |->
            IF groups[g].name # T THEN <<>>
            ELSE LET c == SelectSeq(groups[g].children, LAMBDA ch : ch.name = E)
                 IN [k \in DOMAIN c |-> c[k].value]]))
    IN /\ \A i \in DOMAIN stored :
            hasEventType(stored[i]) =>
              ChildValue(stored[i].evidenceType, stored[i].eventType)
                = CountOf(stored, LAMBDA e : /\ e.evidenceType = stored[i].evidenceType
                                             /\ e.eventType = stored[i].eventType)
       /\ \A g \in DOMAIN groups :
            ChildValue(groups[g].name, "UNKNOWN")
              = CountOf(stored, LAMBDA e : /\ e.evidenceType = groups[g].name
                                           /\ ~hasEventType(e))
       /\ SumSeq(Flatten([g \in DOMAIN groups |->
                   [k \in DOMAIN groups[g].children |-> groups[g].children[k].value]]))
            = Len(stored)

\* C18: a record whose rootCauseEntity is an object without own keys matches
\* the predicate built for hasRootCause=true but is counted under "No" by
\* getHasRootCauseDistribution; for a rootCauseEntity that is absent, null or
\* a non-empty object the predicate and the chart agree; the chart's two
\* values sum to the number of records.
C18_ChartStricterThanFilter ==
  aResult.fn = "getHasRootCauseDistribution" =>
    LET problems == AnalyticsProblems
        predicate == PredicateOf([EmptyQuery EXCEPT !["hasRootCause"] = Str("true")])
        yes == aResult.out[1]
        no == aResult.out[2]
        CountKind(k) == CountOf(problems, LAMBDA p : p.rootCauseEntity = k)
    IN /\ yes.name = "Sí" /\ no.name = "No"
       /\ yes.value + no.value = Len(problems)
       /\ yes.value = CountKind("object")
       /\ no.value = CountKind("empty") + CountKind("null") + CountKind("absent")
       /\ \A i \in DOMAIN StoredMatching :
            LET doc == StoredMatching[i]
            IN /\ doc.rootCauseEntity \in {"empty", "object"} => Matches(doc, predicate)
               /\ doc.rootCauseEntity \in {"absent", "null"} => ~Matches(doc, predicate)

C18_Witness ==
  /\ aResult.fn = "getHasRootCauseDistribution"
  /\ Len(AnalyticsProblems) = 3
  /\ \E i \in DOMAIN AnalyticsProblems : AnalyticsProblems[i].rootCauseEntity = "empty"
  /\ \E i \in DOMAIN AnalyticsProblems : AnalyticsProblems[i].rootCauseEntity = "object"
  /\ aResult.out[1].value = 1
  /\ aResult.out[2].value = 2

\* C20: getFilterOptions on an empty collection returns an empty list for
\* every dimension; on any collection tags holds each distinct non-empty
\* entityTags.stringRepresentation exactly once, and no distinct-value list
\* holds null or undefined.
C20_FilterOptionsEmptyAndClean ==
  aResult.fn = "getFilterOptions" =>
    LET out == aResult.out
        lists == {out.impactLevels, out.severityLevels, out.statuses,
                  out.managementZones, out.entityTypes, out.evidenceTypes}
        stored == UNION {Range(aColl[i].entityTags) : i \in DOMAIN aColl}
    IN /\ aColl = <<>> => lists = {{}} /\ out.tags = <<>>
       /\ \A l \in lists : NullField \notin l /\ Absent \notin l
       /\ Range(out.tags) = stored \ {Absent, NullField, ""}
       /\ Len(out.tags) = Cardinality(Range(out.tags))

C20_Witness ==
  /\ aResult.fn = "getFilterOptions"
  /\ \E i \in DOMAIN aColl : aColl[i].impactLevel = NullField
  /\ \E i \in DOMAIN aColl : aColl[i].entityTags = <<"env:prod", "", "env:prod">>
  /\ aResult.out.tags = <<"team:a", "env:prod">>
  /\ aResult.out.impactLevels = {"SERVICES"}

\* C19: the hasGitHubActions clause (case-insensitive "GitHub Actions" in a
\* comment's content) is emitted only for "true"/true; for every other raw
\* value, "false" included, the predicate built is exactly the one built
\* without the parameter, so no record that the other filters select is
\* excluded.
C19_GitHubActionsClauseOnlyWhenTrue ==
  stage = "built" =>
    /\ query["hasGitHubActions"] \in RawTrue =>
         mongoFilter.recentComments_comments_content
           = [on |-> TRUE, regex |-> <<"GitHub", "Actions">>, options |-> "i"]
    /\ query["hasGitHubActions"] \notin RawTrue =>
         /\ ~mongoFilter.recentComments_comments_content.on
         /\ mongoFilter = PredicateOf(Omit(query, "hasGitHubActions"))
         /\ \A doc \in ProbeDocs :
              Matches(doc, PredicateOf(Omit(query, "hasGitHubActions")))
                => Matches(doc, mongoFilter)

C19_Witness ==
  /\ stage = "built"
  /\ query["hasGitHubActions"] = Str("false")
  /\ filters["hasGitHubActions"] = False
  /\ ~mongoFilter.recentComments_comments_content.on
  /\ \E doc \in ProbeDocs :
       /\ doc.recentComments.comments # <<>>
       /\ Includes(ToLowerCase(doc.recentComments.comments[1].content),
                   <<"github", "actions">>)
       /\ Matches(doc, mongoFilter)

\* The store served client c's request of kind op in this step.
ServedNow(c, op) == pc[c] = "idle" /\ pc'[c] = "respond" /\ req'[c].op = op

C21_Step ==
  \A c \in Clients :
    /\ ServedNow(c, "updateStatus") =>
         /\ Len(store') = Len(store)
         /\ \A i \in DOMAIN store :
              store'[i] = IF i = FindOneIndex(store, req'[c].problemId)
                          THEN [store[i] EXCEPT !.status = req'[c].status]
                          ELSE store[i]
    /\ ServedNow(c, "addComment") =>
         /\ Len(store') = Len(store)
         /\ \A i \in DOMAIN store :
              store'[i] = IF i = FindOneIndex(store, req'[c].problemId)
                          THEN [store[i] EXCEPT
                                  !.recentComments.comments = Append(@, req'[c].comment),
                                  !.recentComments.totalCount = @ + 1]
                          ELSE store[i]

\* Whatever the store has served so far, a record differs from its initial
\* value in status and recentComments only, and an updateStatus and an
\* addComment on one record give the same store in either order, while the
\* later of two updateStatus calls decides the status.
C21_EitherOrder ==
  /\ \A i \in DOMAIN store :
       [store[i] EXCEPT !.status = store0[i].status,
                        !.recentComments = store0[i].recentComments] = store0[i]
  /\ \A id \in RequestIds, st \in {"OPEN", "CLOSED"}, c \in Clients :
       /\ addComment(updateStatus(store, id, st).docs, id, CommentOf(c)).docs
            = updateStatus(addComment(store, id, CommentOf(c)).docs, id, st).docs
       /\ \A st2 \in {"OPEN", "CLOSED"} :
            updateStatus(updateStatus(store, id, st).docs, id, st2).docs
              = updateStatus(store, id, st2).docs

\* C21: updateStatus and addComment are each one store step that changes
\* only the fields it names, of the one record it names: updateStatus sets
\* status and leaves recentComments and every other field and record as they
\* were, addComment appends the comment and increments totalCount and leaves
\* status and every other field and record as they were; so an updateStatus
\* and an addComment on the same record both take effect in either order,
\* and of two updateStatus calls the one served last decides the status.
C21_MutationsChangeOnlyNamedFields == []C21_EitherOrder /\ [][C21_Step]_vars

C21_Witness ==
  /\ \E c, d \in Clients :
       /\ req[c].op = "updateStatus" /\ req[c].problemId = "P1" /\ pc[c] = "idle"
       /\ req[d].op = "addComment" /\ req[d].problemId = "P1" /\ pc[d] = "idle"
       /\ calls = 3
       /\ store[1].status = req[c].status
       /\ store[1].status # store0[1].status
       /\ store[1].recentComments.comments
            = Append(store0[1].recentComments.comments, req[d].comment)
  /\ store[2] = store0[2]

\* The connect attempts that have resolved.
ConnectResolutions ==
  connectCalls - connectFailures - Cardinality({h \in Invocations : hpc[h] = "connecting"})

\* What an invocation whose connect attempt fails does, and what it never
\* does afterwards.
C22_FailureIsFinal ==
  \A h \in Invocations :
    \* the failure: one 500 response with the fixed body, no new attempt
    /\ (hpc[h] = "connecting" /\ hpc'[h] # "connecting" /\ connectFailures' # connectFailures) =>
         /\ hpc'[h] = "done"
         /\ hres'[h] = <<InternalErrorResponse>>
         /\ connectCalls' = connectCalls
         /\ connectFailures' = connectFailures + 1
    \* the request reaches the Express app only after a connect that resolved
    /\ (hpc[h] = "connecting" /\ hpc'[h] = "app") =>
         isConnected' /\ connectFailures' = connectFailures
    \* an answered invocation does nothing more
    /\ hpc[h] = "done" => hpc'[h] = "done" /\ hres'[h] = hres[h]
    \* a connect attempt is the first thing a new invocation does
    /\ connectCalls' # connectCalls =>
         /\ connectCalls' = connectCalls + 1
         /\ \E g \in Invocations : hpc[g] = "new" /\ hpc'[g] = "connecting" /\ ~isConnected

C22_OneResponse ==
  \A h \in Invocations :
    /\ Len(hres[h]) = IF hpc[h] = "done" THEN 1 ELSE 0
    /\ hpc[h] = "done" => hres[h][1] \in {InternalErrorResponse, AppResponse}

C22_FailureStepOf(h) ==
  hpc[h] = "connecting" /\ hpc'[h] = "done"

MentionsGitHubActions(doc) ==
  \E j \in DOMAIN doc.recentComments.comments :
    Includes(ToLowerCase(doc.recentComments.comments[j].content), <<"github", "actions">>)

\* C23: getAutoremediadoDistribution and getAutoremediationTimeSeries count a
\* record as auto-remediated iff some comment of it contains "github actions"
\* in any case, whatever its stored autoremediado value: the distribution's
\* "Sí" value is the number of such records among those the filters select,
\* "No" is the rest, the two sum to the record count, and the series' counts
\* sum to the "Sí" value.
C23_AutoremediadoFromCommentsOnly ==
  LET stored == StoredMatching
      con == CountOf(stored, MentionsGitHubActions)
  IN /\ aResult.fn = "getAutoremediadoDistribution" =>
          /\ aResult.out = <<[name |-> "Sí", value |-> con],
                             [name |-> "No", value |-> Len(stored) - con]>>
          /\ aResult.out[1].value + aResult.out[2].value = Len(stored)
     /\ aResult.fn = "getAutoremediationTimeSeries" =>
          SumSeq([k \in DOMAIN aResult.out |-> aResult.out[k].count]) = con

\* The filter autoremediado=true selects records that are all stored as
\* auto-remediated, and the distribution still has a non-zero "No".
C23_Witness ==
  /\ aResult.fn = "getAutoremediadoDistribution"
  /\ aFilters # Undefined
  /\ aFilters.autoremediado = True
  /\ Len(StoredMatching) = 2
  /\ \A i \in DOMAIN StoredMatching : StoredMatching[i].autoremediado = True
  /\ aResult.out[1].value = 1
  /\ aResult.out[2].value = 1
  /\ \E i \in DOMAIN aColl :
       aColl[i].autoremediado = False /\ MentionsGitHubActions(aColl[i])

\* A bucket key as a number whose order is the string order of the keys of
\* its format: yyyymmdd for a date key, yyyymm for a month key.
TimestampNumber(key) ==
  IF \E d \in -31..59 : IsoDate(d * 24) = key
  THEN LET c == CivilDate(CHOOSE d \in -31..59 : IsoDate(d * 24) = key)
       IN c.year * 10000 + c.month * 100 + c.date
  ELSE LET ym == CHOOSE ym \in {2023, 2024} \X (1..12) :
                   ToString(ym[1]) \o "-" \o PadStart2(ym[2]) = key
       IN ym[1] * 100 + ym[2]

\* C24: getAverageResolutionTimeTimeSeries has a bucket for a key iff a
\* CLOSED record falls in it under getTimeSeries' bucket keys (a bucket with
\* OPEN records only is absent), the bucket's avgResolutionTime is the mean
\* stored duration of its CLOSED records rounded to the nearest integer, and
\* the output of both series is strictly ascending in the bucket key, no key
\* twice.
C24_ClosedBucketsAveragedAndOrdered ==
  LET out == aResult.out
      g == aResult.granularity
      closed == SelectSeq(StoredMatching, LAMBDA p : p.status = "CLOSED")
      KeyOf(p) == TimeBucketKey(p.startTime, g, tzOffset)
      timestamps == {out[k].timestamp : k \in DOMAIN out}
  IN /\ aResult.fn \in {"getTimeSeries", "getAverageResolutionTimeTimeSeries"} =>
          \A k \in 1..(Len(out) - 1) :
            TimestampNumber(out[k].timestamp) < TimestampNumber(out[k + 1].timestamp)
     /\ aResult.fn = "getTimeSeries" =>
          timestamps = {KeyOf(StoredMatching[i]) : i \in DOMAIN StoredMatching}
     /\ aResult.fn = "getAverageResolutionTimeTimeSeries" =>
          /\ timestamps = {KeyOf(closed[i]) : i \in DOMAIN closed}
          /\ LET series == getTimeSeries(SelectSeq(AnalyticsProblems,
                                                   LAMBDA p : p.status = "CLOSED"),
                                         g, tzOffset)
             IN timestamps = {series[k].timestamp : k \in DOMAIN series}
          /\ \A k \in DOMAIN out :
               LET members == {i \in DOMAIN closed : KeyOf(closed[i]) = out[k].timestamp}
                   n == Cardinality(members)
                   sum == SumSeq([i \in DOMAIN closed |->
                                    IF i \in members /\ closed[i].duration.t = "number"
                                    THEN closed[i].duration.n ELSE 0])
                   distance == 2 * (out[k].avgResolutionTime * n - sum)
               IN n > 0 /\ -n <= distance /\ distance <= n

\* A day with an OPEN record only and a day with two CLOSED records of
\* durations 45 and 46: one bucket, average 46.
C24_Witness ==
  /\ aResult.fn = "getAverageResolutionTimeTimeSeries"
  /\ aResult.granularity = "day"
  /\ Len(aColl) = 3
  /\ \E i \in DOMAIN aColl :
       /\ aColl[i].status = "OPEN"
       /\ \A k \in DOMAIN aResult.out :
            aResult.out[k].timestamp # TimeBucketKey(aColl[i].startTime, "day", tzOffset)
  /\ \E i, j \in DOMAIN aColl :
       /\ aColl[i].status = "CLOSED" /\ aColl[i].duration = Num(45)
       /\ aColl[j].status = "CLOSED" /\ aColl[j].duration = Num(46)
  /\ Len(aResult.out) = 1
  /\ aResult.out[1].avgResolutionTime = 46

\* C25: in the serverless process, whatever the order and overlap of the
\* invocations, a service is constructed only by the handler of a request
\* that the app received after a database.connect() resolved, never at
\* module load; each service is constructed at most once, its handle is set
\* from then on, and later requests use it without constructing again.
C25_ServicesConstructedOnceAfterConnect ==
  /\ \A i \in DOMAIN constructions :
       /\ constructions[i].connected
       /\ ConnectResolutions >= 1
       /\ hres[constructions[i].by] = <<AppResponse>>
       /\ \A j \in DOMAIN constructions :
            constructions[i].service = constructions[j].service => i = j
  /\ problemService <=>
       \E i \in DOMAIN constructions : constructions[i].service = "ProblemService"
  /\ analyticsService <=>
       \E i \in DOMAIN constructions : constructions[i].service = "AnalyticsService"
  /\ (\A h \in Invocations : hres[h] # <<AppResponse>>) => constructions = <<>>

\* Both services were constructed, by two invocations, and a third
\* invocation was handled by the app without a construction.
C25_Witness ==
  /\ Len(constructions) = 2
  /\ constructions[1].by # constructions[2].by
  /\ problemService /\ analyticsService
  /\ \A h \in Invocations : hres[h] = <<AppResponse>>
  /\ connectCalls = 2

\* C26: every invocation of a problem-controller handler ends in exactly
\* one outcome: a success response, the NOT_FOUND 404 error response, or
\* next(error) with the error that was thrown; NOT_FOUND is answered only by
\* the three id-scoped handlers and only for an error whose message is
\* exactly 'Problem not found'; a failed service call never gives a success
\* response, a call that returned gives one, and the store operation was
\* issued once.
C26_HandlerEndsInOneOutcome ==
  \A k \in HandlerCalls :
    /\ kPc[k] # "done" => kAnswers[k] = <<>>
    /\ kPc[k] = "done" =>
         /\ Len(kAnswers[k]) = 1
         /\ kAnswers[k][1] \in {SuccessResponse, NotFoundResponse,
                                 NextError(kThrown[k].message)}
         /\ kAnswers[k][1] = NotFoundResponse =>
              /\ kHandler[k] \in IdScopedHandlers
              /\ kThrown[k].threw
              /\ kThrown[k].message = "Problem not found"
         /\ kAnswers[k][1] = SuccessResponse <=> ~kThrown[k].threw
         /\ kAnswers[k][1].kind = "next" => kThrown[k].threw
         /\ kStoreOps[k] = 1

\* An id-scoped handler answered NOT_FOUND, and getProblems handed an error
\* with the same message to next.
C26_Witness ==
  /\ kPc = [k \in HandlerCalls |-> "done"]
  /\ kHandler[1] = "updateProblemStatus"
  /\ kAnswers[1] = <<NotFoundResponse>>
  /\ kHandler[2] = "getProblems"
  /\ kThrown[2].message = "Problem not found"
  /\ kAnswers[2] = <<NextError("Problem not found")>>

\* C27: parseFilters is idempotent on its own output: for every raw query,
\* parseFilters(parseFilters(q)) = parseFilters(q), so normalising canonical
\* filters again adds, drops or changes no predicate.
C27_ParseFiltersIdempotent ==
  stage \in {"parsed", "built"} =>
    /\ parseFilters(filters) = filters
    /\ buildFilter(parseFilters(filters)) = buildFilter(filters)

\* The clause an array filter sets in a predicate.
ArrayClause(k, mf) ==
  CASE k = "impactLevel" -> mf.impactLevel
    [] k = "severityLevel" -> mf.severityLevel
    [] k = "status" -> mf.status
    [] k = "managementZones" -> mf.managementZones_name
    [] k = "affectedEntityTypes" -> mf.affectedEntities_entityId_type
    [] k = "entityTags" -> mf.entityTags_stringRepresentation
    [] k = "evidenceType" -> mf.evidenceDetails_details_evidenceType

\* C28: an array filter that is present and empty sets no clause: the
\* predicate built is the one built with the field omitted, so it selects
\* the records the other filters select, and all records when it is the
\* only filter.
C28_EmptyArrayFilterAddsNoClause ==
  stage = "built" =>
    \A k \in ArrayKeys :
      filters[k] = StrArr(<<>>) =>
        /\ ~ArrayClause(k, mongoFilter).on
        /\ mongoFilter = buildFilter([filters EXCEPT ![k] = Undefined])
        /\ \A doc \in ProbeDocs :
             Matches(doc, mongoFilter)
               <=> Matches(doc, buildFilter([filters EXCEPT ![k] = Undefined]))
        /\ (\A j \in FilterKeys \ {k} : filters[j] = Undefined) =>
             \A doc \in ProbeDocs : Matches(doc, mongoFilter)

C28_Witness ==
  /\ stage = "built"
  /\ query["status"] = StrArr(<<>>)
  /\ filters["status"] = StrArr(<<>>)
  /\ \A j \in FilterKeys \ {"status"} : filters[j] = Undefined
  /\ mongoFilter = EmptyMongoFilter
  /\ \E doc \in ProbeDocs : doc.status = "CLOSED" /\ Matches(doc, mongoFilter)
  /\ \E doc \in ProbeDocs : doc.status = "OPEN" /\ Matches(doc, mongoFilter)

\* The sum of the values of a list of name/value entries.
SumOfValues(entries) == SumSeq([i \in DOMAIN entries |-> entries[i].value])

\* C29: for one filter set and an unchanged store, every view reports the
\* record count N = length of findAllProblems(F): KPI totalProblems, the
\* funnel's Total Problems, the sum of the duration categories, the sums of
\* the impact and of the severity distribution, the sum of the matrix cells,
\* and the two-value sums of the root-cause, has-root-cause and autoremediado
\* distributions; KPI closedProblems and the funnel's Closed count are both
\* the number of CLOSED records.
C29_ViewsAgreeOnRecordCount ==
  LET out == aResult.out
      fn == aResult.fn
      N == Len(findAllProblems(aColl, aFilters, Undefined))
      closed == CountOf(StoredMatching, LAMBDA p : p.status = "CLOSED")
  IN /\ N = Len(StoredMatching)
     /\ fn = "getKPIs" => out.totalProblems = N /\ out.closedProblems = closed
     /\ fn = "getRemediationFunnel" =>
          /\ out[1].name = "Total Problems" /\ out[1].count = N
          /\ out[5].name = "Closed" /\ out[5].count = closed
     /\ fn = "getDurationDistribution" =>
          SumSeq([i \in 1..5 |->
                    out[<<"less_than_5", "5_to_10", "10_to_30", "30_to_180",
                          "more_than_180">>[i]]]) = N
     /\ fn \in {"getImpactDistribution", "getSeverityDistribution"} =>
          SumOfValues(out) = N
     /\ fn = "getImpactSeverityMatrix" =>
          SumSeq([i \in DOMAIN out |-> SumOfValues(out[i].row)]) = N
     /\ fn \in {"getRootCauseDistribution", "getHasRootCauseDistribution",
                 "getAutoremediadoDistribution"} =>
          Len(out) = 2 /\ out[1].value + out[2].value = N

\* The matrix of three selected records, two of them without a stored
\* impact level (null and missing).
C29_Witness ==
  /\ aResult.fn = "getImpactSeverityMatrix"
  /\ Len(StoredMatching) = 3
  /\ \E i \in DOMAIN StoredMatching : StoredMatching[i].impactLevel = NullField
  /\ \E i \in DOMAIN StoredMatching : StoredMatching[i].impactLevel = Absent
  /\ {aResult.out[i].name : i \in DOMAIN aResult.out} = {"null", "undefined", "SERVICES"}
  /\ SumSeq([i \in DOMAIN aResult.out |-> SumOfValues(aResult.out[i].row)]) = 3

Spec == SpecStore

====
